---- MODULE Spec2Model ----
(***************************************************************************)
(* A model of the fcc command-line client: the in-memory access-token      *)
(* cache (src/src/index.ts) under SpecToken, the local/global config       *)
(* store (src/unnamed/part_001) with the `config` commands                 *)
(* (src/unnamed/part_003) under SpecConfig, and the project/app resolver   *)
(* and the request layer (src/src/api/firebase-project.ts) with the        *)
(* commands that use them under SpecCommand.                               *)
(*                                                                         *)
(* JavaScript values of different types are kept apart by tagged records   *)
(* ([t |-> "str", ...], [t |-> "num", ...]), so that the number 50 and the  *)
(* string "50" are different values of the model, as they are in the code. *)
(***************************************************************************)
EXTENDS Integers, Sequences, FiniteSets, TLC

VARIABLES
  now,                \* Date.now(), in milliseconds
  ticks,              \* how many times the clock has advanced (bounded)
  cachedAccessToken,  \* index.ts:41
  tokenExpiresAt,     \* index.ts:42
  credFile,           \* ~/.config/configstore/firebase-tools.json
  pc,                 \* per async caller: where its getAccessToken call stands
  call,               \* per async caller: the record of its current call
  calls,              \* how many getAccessToken calls were started (bounded)
  parallel,           \* the two current calls were started by one Promise.all
  lastRefresh,        \* history: the last successful token response
  localFile,          \* <cwd>/.fcc.json
  globalFile,         \* ~/.config/fcc/config.json
  last,               \* history: the last config command, its input and outcome
  ncmds,              \* how many config commands have run (bounded)
  rcFile,             \* <cwd>/.firebaserc
  run,                \* the command the process is running, and what it printed
  inv,                \* the request-layer invocations the command awaits
  http,               \* history: the HTTP requests the process has sent
  saved,              \* history: what `fcc set project` / `fcc set app` saved last
  nruns,              \* how many commands were started (bounded)
  nsets,              \* how many `fcc set` commands have run (bounded)
  tool                \* the library function being run on its own, and its result

tokenVars == <<now, ticks, cachedAccessToken, tokenExpiresAt, credFile, pc, call,
               calls, parallel, lastRefresh>>
configVars == <<localFile, globalFile, last, ncmds>>
commandVars == <<rcFile, run, inv, http, saved, nruns, nsets, tool>>
vars == <<now, ticks, cachedAccessToken, tokenExpiresAt, credFile, pc, call,
          calls, parallel, lastRefresh, localFile, globalFile, last, ncmds,
          rcFile, run, inv, http, saved, nruns, nsets, tool>>

(***************************************************************************)
(* Bounds of the model.                                                    *)
(***************************************************************************)
MaxTicks == 3
MaxCalls == 3
MaxCmds == 2
MaxRuns == 1
MaxSets == 2
MaxPages == 3

(***************************************************************************)
(* Program constants.                                                      *)
(***************************************************************************)
SafetyMarginSeconds == 60
MsPerSecond == 1000

\* JavaScript null for the token cache (index.ts:41).
null == "<null>"

getFirebaseConfigPath == "~/.config/configstore/firebase-tools.json"
getLocalConfigPath == "<cwd>/.fcc.json"
getGlobalConfigPath == "~/.config/fcc/config.json"

(***************************************************************************)
(* Results of the asynchronous functions: a value, or a thrown Error.  The *)
(* code throws plain Errors told apart by their message; `kind` is the     *)
(* error kind of the message, `names` the file paths the message contains, *)
(* `status` the HTTP status codes the message contains.                    *)
(***************************************************************************)
Ok(t) == [kind |-> "ok", token |-> t, names |-> {}, status |-> {}]
Err(k, ns, st) == [kind |-> k, token |-> "", names |-> ns, status |-> st]

(***************************************************************************)
(* The sibling tool's config file, as the reads of readRefreshToken see it.*)
(***************************************************************************)
Undefined == [t |-> "undefined"]
JsonNull == [t |-> "null"]
Str(s) == [t |-> "str", s |-> s]

CredJson ==
  { JsonNull,
    [t |-> "obj", tokens |-> Undefined],
    [t |-> "obj", tokens |-> [t |-> "obj", refresh_token |-> Undefined]],
    [t |-> "obj", tokens |-> [t |-> "obj", refresh_token |-> Str("")]],
    [t |-> "obj", tokens |-> [t |-> "obj", refresh_token |-> Str("1//refresh")]] }

CredFiles ==
  { [st |-> "ENOENT"], [st |-> "EACCES"], [st |-> "unparsable"] }
    \cup { [st |-> "json", val |-> v] : v \in CredJson }

\* config?.tokens?.refresh_token (index.ts:101)
RefreshTokenField(v) ==
  IF v.t # "obj" THEN Undefined
  ELSE IF v.tokens.t # "obj" THEN Undefined
  ELSE v.tokens.refresh_token

\* JavaScript truthiness of a string-or-undefined value.
Truthy(v) == v.t = "str" /\ v.s # ""

\* (A variant that takes a file that is not JSON for a missing one.)
readRefreshTokenCorruptIsMissing(file) ==
  CASE file.st = "ENOENT" -> Err("NotAuthenticated", {}, {})
    [] file.st = "EACCES" -> Err("ReadFailed", {getFirebaseConfigPath}, {})
    [] file.st = "unparsable" -> Err("NotAuthenticated", {}, {})
    [] OTHER ->
         IF Truthy(RefreshTokenField(file.val))
           THEN Ok(RefreshTokenField(file.val).s)
           ELSE Err("NotAuthenticated", {}, {})

\* readRefreshToken (index.ts:74-109), of the file's state.
readRefreshToken(file) ==
  CASE file.st = "ENOENT" -> Err("NotAuthenticated", {}, {})
    [] file.st = "EACCES" -> Err("ReadFailed", {getFirebaseConfigPath}, {})
    [] file.st = "unparsable" -> Err("ConfigCorrupt", {getFirebaseConfigPath}, {})
    [] OTHER ->
         IF Truthy(RefreshTokenField(file.val))
           THEN Ok(RefreshTokenField(file.val).s)
           ELSE Err("NotAuthenticated", {}, {})

(***************************************************************************)
(* The token endpoint's answers.                                           *)
(***************************************************************************)
Tokens == {"ya29.A", "ya29.B"}
TTLs == {30, 60, 61}
OkStatuses == {200}
ErrorStatuses == {400, 500}

\* A response body: not JSON, JSON null, or a JSON object.  An absent
\* string field is "", which the code's tests treat like an absent one.
ErrorBodies ==
  { [t |-> "obj", error |-> e, access_token |-> "", expires_in |-> 0] :
      e \in {"invalid_grant", "invalid_client"} }

TokenBodies ==
  { [t |-> "obj", error |-> "", access_token |-> a, expires_in |-> n] :
      a \in Tokens, n \in TTLs }

EmptyBody == [t |-> "obj", error |-> "", access_token |-> "", expires_in |-> 0]

\* The answers of the token endpoint: a 2xx answer with a token body or a
\* broken body, a non-2xx answer with an error body or a broken body.
Responses ==
  { [net |-> TRUE, status |-> s, body |-> b] :
      s \in OkStatuses,
      b \in {[t |-> "unparsable"], JsonNull, EmptyBody} \cup TokenBodies }
    \cup
  { [net |-> TRUE, status |-> s, body |-> b] :
      s \in ErrorStatuses,
      b \in {[t |-> "unparsable"], JsonNull, EmptyBody} \cup ErrorBodies }

NoResponse == [net |-> FALSE, status |-> 0, body |-> Undefined]

\* response.ok
ResponseOk(r) == r.status >= 200 /\ r.status <= 299

(***************************************************************************)
(* refreshAccessToken (index.ts:114-176), after the POST was answered.     *)
(***************************************************************************)
\* The error thrown for a non-2xx response (index.ts:136-154).
refreshFailure(r) ==
  CASE r.body.t = "unparsable" ->
         \* response.json() rejects: the generic message, with the status
         Err("UpstreamError", {}, {r.status})
    [] r.body.t = "null" ->
         \* errorBody.error throws inside the try: the generic message
         Err("UpstreamError", {}, {r.status})
    [] r.body.error = "invalid_grant" -> Err("NotAuthenticated", {}, {})
    [] OTHER ->
         \* `Token refresh failed: ${errorBody.error}`: no status in it
         Err("UpstreamError", {}, {})

\* The result for a 2xx response (index.ts:156-175).
refreshSuccess(r) ==
  CASE r.body.t = "unparsable" -> Err("ProtocolError", {}, {})
    [] r.body.t = "null" -> Err("TypeError", {}, {})
    [] r.body.access_token = "" -> Err("NoAccessToken", {}, {})
    [] OTHER -> Ok(r.body.access_token)

refreshResult(r) == IF ResponseOk(r) THEN refreshSuccess(r) ELSE refreshFailure(r)

\* tokenExpiresAt = Date.now() + (tokenData.expires_in - 60) * 1000 (index.ts:173)
\* (A variant without the safety margin.)
ExpiresAtNoMargin(t, expires_in) == t + expires_in * MsPerSecond

ExpiresAt(t, expires_in) == t + (expires_in - SafetyMarginSeconds) * MsPerSecond

\* cachedAccessToken && Date.now() < tokenExpiresAt (index.ts:189)
\* (Variants of the test: without the expiry, and with the comparison turned.)
CacheValidIgnoresExpiry == cachedAccessToken # null

CacheValidFlipped == cachedAccessToken # null /\ now > tokenExpiresAt

CacheValid == cachedAccessToken # null /\ now < tokenExpiresAt

(***************************************************************************)
(* The callers.  Two asynchronous callers are enough: the program awaits   *)
(* every authenticated request before the next, except where it starts two *)
(* of them in one Promise.all (firebase-project.ts:229, part_003:431,      *)
(* reports.ts:465).  A caller's call record keeps what the call saw when   *)
(* it began and what it did.                                               *)
(***************************************************************************)
Procs == {1, 2}
InFlight == {"readFile", "fetch", "json"}
Pending == [kind |-> "pending", token |-> "", names |-> {}, status |-> {}]

IdleCall ==
  [startNow |-> 0, startTok |-> null, startExp |-> 0, reads |-> 0, posts |-> 0,
   resp |-> NoResponse, result |-> Pending, wrote |-> FALSE, endTok |-> null]

NoRefresh == [token |-> null, expires_in |-> 0, at |-> 0]

\* The synchronous prefix of getAccessToken (index.ts:187-193): the cached
\* token is returned, or readRefreshToken starts reading the file.
getAccessTokenPc == IF CacheValid THEN "returned" ELSE "readFile"

getAccessTokenCall ==
  [IdleCall EXCEPT !.startNow = now, !.startTok = cachedAccessToken,
                   !.startExp = tokenExpiresAt,
                   !.result = IF CacheValid THEN Ok(cachedAccessToken) ELSE Pending,
                   !.endTok = cachedAccessToken]

Quiet == \A p \in Procs : pc[p] \notin InFlight

\* One authenticated request: one getAccessToken call.
SingleRequest ==
  /\ Quiet
  /\ calls < MaxCalls
  /\ pc' = [p \in Procs |-> IF p = 1 THEN getAccessTokenPc ELSE "idle"]
  /\ call' = [p \in Procs |-> IF p = 1 THEN getAccessTokenCall ELSE IdleCall]
  /\ calls' = calls + 1
  /\ parallel' = FALSE
  /\ UNCHANGED <<now, ticks, cachedAccessToken, tokenExpiresAt, credFile, lastRefresh>>
  /\ UNCHANGED configVars
  /\ UNCHANGED commandVars

\* Two authenticated requests started by one Promise.all: both run their
\* synchronous prefix before any callback.  In every command the pair
\* follows a request that succeeded (resolveProject: apps.ts:21-24,
\* part_003:241-243, reports.ts:91-99).
ParallelRequests ==
  /\ Quiet
  /\ calls + 2 <= MaxCalls
  /\ pc[1] = "returned"
  /\ parallel => pc[2] = "returned"
  /\ pc' = [p \in Procs |-> getAccessTokenPc]
  /\ call' = [p \in Procs |-> getAccessTokenCall]
  /\ calls' = calls + 2
  /\ parallel' = TRUE
  /\ UNCHANGED <<now, ticks, cachedAccessToken, tokenExpiresAt, credFile, lastRefresh>>
  /\ UNCHANGED configVars
  /\ UNCHANGED commandVars

\* readFile settles; on success refreshAccessToken sends the POST
\* (index.ts:74-109, 114-128).
ReadFileDone(p) ==
  /\ pc[p] = "readFile"
  /\ LET r == readRefreshToken(credFile) IN
       IF r.kind = "ok"
         THEN /\ pc' = [pc EXCEPT ![p] = "fetch"]
              /\ call' = [call EXCEPT ![p].reads = @ + 1, ![p].posts = @ + 1]
         ELSE /\ pc' = [pc EXCEPT ![p] = "thrown"]
              /\ call' = [call EXCEPT ![p].reads = @ + 1, ![p].result = r,
                                      ![p].endTok = cachedAccessToken]
  /\ UNCHANGED <<now, ticks, cachedAccessToken, tokenExpiresAt, credFile, calls,
                 parallel, lastRefresh>>
  /\ UNCHANGED configVars
  /\ UNCHANGED commandVars

\* (A variant of the rejection that drops the cached token.)
FetchFailsClearsCache(p) ==
  /\ pc[p] = "fetch"
  /\ pc' = [pc EXCEPT ![p] = "thrown"]
  /\ call' = [call EXCEPT ![p].result = Err("NetworkError", {}, {}),
                          ![p].endTok = null]
  /\ cachedAccessToken' = null
  /\ UNCHANGED <<now, ticks, tokenExpiresAt, credFile, calls, parallel, lastRefresh>>
  /\ UNCHANGED configVars
  /\ UNCHANGED commandVars

\* fetch rejects (index.ts:129-134).
FetchFails(p) ==
  /\ pc[p] = "fetch"
  /\ pc' = [pc EXCEPT ![p] = "thrown"]
  /\ call' = [call EXCEPT ![p].result = Err("NetworkError", {}, {}),
                          ![p].endTok = cachedAccessToken]
  /\ UNCHANGED <<now, ticks, cachedAccessToken, tokenExpiresAt, credFile, calls,
                 parallel, lastRefresh>>
  /\ UNCHANGED configVars
  /\ UNCHANGED commandVars

\* fetch resolves with a response; response.json() is awaited next.
FetchResponds(p) ==
  /\ pc[p] = "fetch"
  /\ \E r \in Responses :
       call' = [call EXCEPT ![p].resp = r]
  /\ pc' = [pc EXCEPT ![p] = "json"]
  /\ UNCHANGED <<now, ticks, cachedAccessToken, tokenExpiresAt, credFile, calls,
                 parallel, lastRefresh>>
  /\ UNCHANGED configVars
  /\ UNCHANGED commandVars

\* (A variant that caches the new token and keeps the old expiry.)
JsonDoneKeepsExpiry(p) ==
  /\ pc[p] = "json"
  /\ LET r == call[p].resp
         res == refreshResult(r)
     IN IF res.kind = "ok"
          THEN /\ cachedAccessToken' = r.body.access_token
               /\ lastRefresh' = [token |-> r.body.access_token,
                                  expires_in |-> r.body.expires_in, at |-> now]
               /\ pc' = [pc EXCEPT ![p] = "returned"]
               /\ call' = [call EXCEPT ![p].result = res, ![p].wrote = TRUE,
                                       ![p].endTok = cachedAccessToken']
          ELSE /\ pc' = [pc EXCEPT ![p] = "thrown"]
               /\ call' = [call EXCEPT ![p].result = res,
                                       ![p].endTok = cachedAccessToken]
               /\ UNCHANGED <<cachedAccessToken, lastRefresh>>
  /\ UNCHANGED <<now, ticks, tokenExpiresAt, credFile, calls, parallel>>
  /\ UNCHANGED configVars
  /\ UNCHANGED commandVars

\* response.json() settles: the error is thrown, or the cache is written and
\* the token returned (index.ts:136-175).
JsonDone(p) ==
  /\ pc[p] = "json"
  /\ LET r == call[p].resp
         res == refreshResult(r)
     IN IF res.kind = "ok"
          THEN /\ cachedAccessToken' = r.body.access_token
               /\ tokenExpiresAt' = ExpiresAt(now, r.body.expires_in)
               /\ lastRefresh' = [token |-> r.body.access_token,
                                  expires_in |-> r.body.expires_in, at |-> now]
               /\ pc' = [pc EXCEPT ![p] = "returned"]
               /\ call' = [call EXCEPT ![p].result = res, ![p].wrote = TRUE,
                                       ![p].endTok = cachedAccessToken']
          ELSE /\ pc' = [pc EXCEPT ![p] = "thrown"]
               /\ call' = [call EXCEPT ![p].result = res,
                                       ![p].endTok = cachedAccessToken]
               /\ UNCHANGED <<cachedAccessToken, tokenExpiresAt, lastRefresh>>
  /\ UNCHANGED <<now, ticks, credFile, calls, parallel>>
  /\ UNCHANGED configVars
  /\ UNCHANGED commandVars

\* Time passes.
TickSizes == {500}

Tick ==
  /\ ticks < MaxTicks
  /\ \E d \in TickSizes : now' = now + d
  /\ ticks' = ticks + 1
  /\ UNCHANGED <<cachedAccessToken, tokenExpiresAt, credFile, pc, call, calls,
                 parallel, lastRefresh>>
  /\ UNCHANGED configVars
  /\ UNCHANGED commandVars

StartTime == 100 * MsPerSecond

TokenInit ==
  /\ now = StartTime
  /\ ticks = 0
  /\ cachedAccessToken = null
  /\ tokenExpiresAt = 0
  /\ credFile \in CredFiles
  /\ pc = [p \in Procs |-> "idle"]
  /\ call = [p \in Procs |-> IdleCall]
  /\ calls = 0
  /\ parallel = FALSE
  /\ lastRefresh = NoRefresh

(***************************************************************************)
(* The config store (part_001).  A string is a sequence of lexemes: a      *)
(* digit, a sign, a blank, a letter, or the word Infinity.  A JavaScript   *)
(* value is a string, a finite number, an infinite number, NaN, null or    *)
(* undefined; a JSON value is a string, a finite number or null.           *)
(***************************************************************************)
Num(n) == [t |-> "num", n |-> n]
Infinite(sign) == [t |-> "infinite", sign |-> sign]
NaN == [t |-> "NaN"]
Obj(rec) == [t |-> "obj", rec |-> rec]
EmptyRec == [k \in {} |-> Undefined]

Digits == <<"0", "1", "2", "3", "4", "5", "6", "7", "8", "9">>
IsDigit(c) == \E i \in 1..Len(Digits) : Digits[i] = c
DigitValue(c) == (CHOOSE i \in 1..Len(Digits) : Digits[i] = c) - 1
IsBlank(c) == c \in {" ", "\n"}

RECURSIVE TrimStart(_)
TrimStart(s) == IF s # <<>> /\ IsBlank(Head(s)) THEN TrimStart(Tail(s)) ELSE s

RECURSIVE TrimEnd(_)
TrimEnd(s) ==
  IF s # <<>> /\ IsBlank(s[Len(s)]) THEN TrimEnd(SubSeq(s, 1, Len(s) - 1)) ELSE s

RECURSIVE DecimalValue(_)
DecimalValue(s) ==
  IF s = <<>> THEN 0
  ELSE 10 * DecimalValue(SubSeq(s, 1, Len(s) - 1)) + DigitValue(s[Len(s)])

\* An unsigned decimal literal of the string-to-number grammar.
UnsignedValue(s, sign) ==
  IF s = <<"Infinity">> THEN Infinite(sign)
  ELSE IF s # <<>> /\ \A i \in 1..Len(s) : IsDigit(s[i])
    THEN Num(sign * DecimalValue(s))
    ELSE NaN

\* Number(value) of a string (part_001:150): blanks are trimmed, the empty
\* string is 0, Infinity is a number, anything else that is no literal is NaN.
ToNumber(s) ==
  LET body == TrimEnd(TrimStart(s)) IN
    IF body = <<>> THEN Num(0)
    ELSE IF Head(body) = "-" THEN UnsignedValue(Tail(body), -1)
    ELSE IF Head(body) = "+" THEN UnsignedValue(Tail(body), 1)
    ELSE UnsignedValue(body, 1)

RECURSIVE DigitsOf(_)
DigitsOf(n) ==
  IF n < 10 THEN <<Digits[n + 1]>> ELSE DigitsOf(n \div 10) \o <<Digits[(n % 10) + 1]>>

\* String(value) (part_003:81, 127).
StringOf(v) ==
  CASE v.t = "str" -> v.s
    [] v.t = "num" -> IF v.n < 0 THEN <<"-">> \o DigitsOf(-v.n) ELSE DigitsOf(v.n)
    [] v.t = "infinite" -> IF v.sign < 0 THEN <<"-", "Infinity">> ELSE <<"Infinity">>
    [] v.t = "NaN" -> <<"NaN">>
    [] v.t = "null" -> <<"null">>
    [] OTHER -> <<"undefined">>

\* JSON.stringify of one property value: a number that is not finite is
\* written as null.
StringifyValue(v) ==
  CASE v.t = "infinite" -> JsonNull
    [] v.t = "NaN" -> JsonNull
    [] OTHER -> v

\* JSON.stringify of an object: a property that is undefined is left out.
Stringify(rec) ==
  [k \in {x \in DOMAIN rec : rec[x].t # "undefined"} |-> StringifyValue(rec[k])]

\* JSON.parse of what JSON.stringify wrote.
Parse(json) == [k \in DOMAIN json |-> json[k]]

\* existing[key] = value
Assign(rec, key, value) ==
  [k \in DOMAIN rec \cup {key} |-> IF k = key THEN value ELSE rec[k]]

\* (await readConfig()) ?? {}
OrEmpty(v) == IF v.t = "null" THEN EmptyRec ELSE Parse(v.rec)

ROk(v) == [kind |-> "ok", val |-> v, names |-> {}]
RErr(k, ns) == [kind |-> k, val |-> Undefined, names |-> ns]

KnownKeys ==
  {"project", "projectId", "projectNumber", "app", "appId", "defaultType",
   "defaultLimit"}

KNOWN_CONFIG_KEYS ==
  [k \in KnownKeys |-> IF k = "defaultLimit" THEN "number" ELSE "string"]

\* (A variant of readConfig for which a missing file is an error.)
readConfigMissingIsError(file) ==
  CASE file.st = "ENOENT" -> RErr("ReadFailed", {getLocalConfigPath})
    [] file.st = "EACCES" -> RErr("ReadFailed", {getLocalConfigPath})
    [] file.st = "unparsable" -> RErr("ConfigCorrupt", {getLocalConfigPath})
    [] OTHER -> ROk(file.val)

\* readConfig (part_001:47-68), of the local file's state.
readConfig(file) ==
  CASE file.st = "ENOENT" -> ROk(JsonNull)
    [] file.st = "EACCES" -> RErr("ReadFailed", {getLocalConfigPath})
    [] file.st = "unparsable" -> RErr("ConfigCorrupt", {getLocalConfigPath})
    [] OTHER -> ROk(file.val)

\* readGlobalConfig (part_001:90-111), of the global file's state.
readGlobalConfig(file) ==
  CASE file.st = "ENOENT" -> ROk(JsonNull)
    [] file.st = "EACCES" -> RErr("ReadFailed", {getGlobalConfigPath})
    [] file.st = "unparsable" -> RErr("ConfigCorrupt", {getGlobalConfigPath})
    [] OTHER -> ROk(file.val)

\* writeFile(configPath, JSON.stringify(existing, null, 2) + "\n")
Written(rec) == [st |-> "json", val |-> Obj(Stringify(rec))]

\* (A variant of writeConfig that writes the merged record back.)
writeConfigWritesMerged(key, value) ==
  LET r == readConfig(localFile)
      g == readGlobalConfig(globalFile)
      base == IF g.kind = "ok" THEN OrEmpty(g.val) ELSE EmptyRec
  IN IF r.kind # "ok" THEN [res |-> r, file |-> localFile]
     ELSE [res |-> ROk(Undefined),
           file |-> Written(Assign(
             [k \in DOMAIN base \cup DOMAIN OrEmpty(r.val) |->
                IF k \in DOMAIN OrEmpty(r.val) THEN OrEmpty(r.val)[k] ELSE base[k]],
             key, value))]

\* (A variant of writeConfig that writes the one key alone.)
writeConfigDropsOthers(key, value) ==
  LET r == readConfig(localFile) IN
    IF r.kind # "ok" THEN [res |-> r, file |-> localFile]
    ELSE [res |-> ROk(Undefined), file |-> Written(Assign(EmptyRec, key, value))]

\* writeConfig (part_001:74-82): the result, and the local file afterwards.
writeConfig(key, value) ==
  LET r == readConfig(localFile) IN
    IF r.kind # "ok" THEN [res |-> r, file |-> localFile]
    ELSE [res |-> ROk(Undefined),
          file |-> Written(Assign(OrEmpty(r.val), key, value))]

\* writeGlobalConfig (part_001:117-129): the result, and the global file
\* afterwards.  (The mkdir of the file's directory is not part of the state.)
writeGlobalConfig(key, value) ==
  LET r == readGlobalConfig(globalFile) IN
    IF r.kind # "ok" THEN [res |-> r, file |-> globalFile]
    ELSE [res |-> ROk(Undefined),
          file |-> Written(Assign(OrEmpty(r.val), key, value))]

\* (A variant of getMergedConfig with the spread order turned.)
getMergedConfigGlobalWins ==
  LET g == readGlobalConfig(globalFile)
      l == readConfig(localFile)
  IN IF g.kind # "ok" THEN g
     ELSE IF l.kind # "ok" THEN l
     ELSE LET gr == OrEmpty(g.val)
              lr == OrEmpty(l.val)
          IN ROk(Obj([k \in DOMAIN gr \cup DOMAIN lr |->
                        IF k \in DOMAIN gr THEN gr[k] ELSE lr[k]]))

\* getMergedConfig (part_001:137-141): { ...globalConfig, ...localConfig }
getMergedConfig ==
  LET g == readGlobalConfig(globalFile)
      l == readConfig(localFile)
  IN IF g.kind # "ok" THEN g
     ELSE IF l.kind # "ok" THEN l
     ELSE LET gr == OrEmpty(g.val)
              lr == OrEmpty(l.val)
          IN ROk(Obj([k \in DOMAIN gr \cup DOMAIN lr |->
                        IF k \in DOMAIN lr THEN lr[k] ELSE gr[k]]))

\* coerceConfigValue (part_001:147-157)
coerceConfigValue(key, value) ==
  IF key \in DOMAIN KNOWN_CONFIG_KEYS /\ KNOWN_CONFIG_KEYS[key] = "number"
    THEN IF ToNumber(value).t = "NaN"
           THEN RErr("InvalidValue", {})
           ELSE ROk(ToNumber(value))
    ELSE ROk(Str(value))

(***************************************************************************)
(* The `config` commands (part_003:70-211).  `last` records the command    *)
(* that ran last: its arguments, the files before it, and what it wrote to *)
(* standard output and standard error.  A printed line is a record of its  *)
(* variable parts.  A record's keys carry no order in the model, so the    *)
(* per-key lines of `config list` are a set.                               *)
(***************************************************************************)
KeyInputs == {"project", "defaultLimit", "theme"}
ValueInputs == { <<"5", "0">>, <<>>, <<"a", "b", "c">>, <<"Infinity">> }

NoCommand ==
  [cmd |-> "none", key |-> "", input |-> <<>>, json |-> FALSE,
   coerced |-> ROk(Undefined), res |-> ROk(Undefined), merged |-> Undefined,
   stdout |-> <<>>, stderr |-> <<>>, exit |-> 0,
   preLocal |-> [st |-> "ENOENT"], preGlobal |-> [st |-> "ENOENT"]]

Ran(cmd) == [NoCommand EXCEPT !.cmd = cmd, !.preLocal = localFile,
                              !.preGlobal = globalFile]

\* console.error(`Error: ${error.message}`); process.exit(1)
ErrorLine(r) == [tag |-> "Error", kind |-> r.kind, names |-> r.names]

\* warnIfUnknownKey (part_003:203-211): console.warn writes to standard error.
warnIfUnknownKey(key) ==
  IF key \notin DOMAIN KNOWN_CONFIG_KEYS
    THEN << [tag |-> "Warning", key |-> key] >>
    ELSE <<>>

\* config set <key> <value> (part_003:75-89)
ConfigSet ==
  \E key \in KeyInputs, value \in ValueInputs :
    LET c == coerceConfigValue(key, value)
        w == writeConfig(key, c.val)
        res == IF c.kind # "ok" THEN c ELSE w.res
    IN /\ ncmds < MaxCmds
       /\ ncmds' = ncmds + 1
       /\ localFile' = IF c.kind = "ok" THEN w.file ELSE localFile
       /\ last' =
            [Ran("set") EXCEPT
               !.key = key, !.input = value, !.coerced = c, !.res = res,
               !.stdout =
                 IF res.kind = "ok"
                   THEN << [tag |-> "Set", key |-> key, text |-> StringOf(c.val),
                            scope |-> "local"],
                           [tag |-> "path", path |-> getLocalConfigPath] >>
                   ELSE <<>>,
               !.stderr =
                 warnIfUnknownKey(key)
                   \o (IF res.kind = "ok" THEN <<>> ELSE <<ErrorLine(res)>>),
               !.exit = IF res.kind = "ok" THEN 0 ELSE 1]
       /\ UNCHANGED globalFile
       /\ UNCHANGED tokenVars
       /\ UNCHANGED commandVars

\* config set-global <key> <value> (part_003:98-112)
ConfigSetGlobal ==
  \E key \in KeyInputs, value \in ValueInputs :
    LET c == coerceConfigValue(key, value)
        w == writeGlobalConfig(key, c.val)
        res == IF c.kind # "ok" THEN c ELSE w.res
    IN /\ ncmds < MaxCmds
       /\ ncmds' = ncmds + 1
       /\ globalFile' = IF c.kind = "ok" THEN w.file ELSE globalFile
       /\ last' =
            [Ran("set-global") EXCEPT
               !.key = key, !.input = value, !.coerced = c, !.res = res,
               !.stdout =
                 IF res.kind = "ok"
                   THEN << [tag |-> "Set", key |-> key, text |-> StringOf(c.val),
                            scope |-> "global"],
                           [tag |-> "path", path |-> getGlobalConfigPath] >>
                   ELSE <<>>,
               !.stderr =
                 warnIfUnknownKey(key)
                   \o (IF res.kind = "ok" THEN <<>> ELSE <<ErrorLine(res)>>),
               !.exit = IF res.kind = "ok" THEN 0 ELSE 1]
       /\ UNCHANGED localFile
       /\ UNCHANGED tokenVars
       /\ UNCHANGED commandVars

\* Keys every object inherits from Object.prototype: `key in obj` is true of
\* them, and obj[key] is a function, for an object that has no such key of
\* its own.
ObjectPrototypeKeys == {"toString"}

\* localConfig && key in localConfig && localConfig[key] !== undefined
HasKey(v, key) ==
  /\ v.t = "obj"
  /\ \/ key \in DOMAIN v.rec /\ v.rec[key].t # "undefined"
     \/ key \notin DOMAIN v.rec /\ key \in ObjectPrototypeKeys

\* config get <key> (part_003:116-145).  The command declares no --json
\* option (116-119): given one, commander ends the process with "unknown
\* option" on standard error before the action runs.
ConfigGet ==
  \E key \in KeyInputs \cup ObjectPrototypeKeys, json \in BOOLEAN :
    LET l == IF json THEN RErr("UnknownOption", {"--json"}) ELSE readConfig(localFile)
        g == readGlobalConfig(globalFile)
        \* String(config[key]), of an own key or of an inherited function
        String(v) == IF key \in DOMAIN v.rec THEN StringOf(v.rec[key])
                     ELSE <<"function ", key, "() { [native code] }">>
        res == IF l.kind # "ok" THEN l ELSE IF g.kind # "ok" THEN g ELSE ROk(Undefined)
    IN /\ ncmds < MaxCmds
       /\ ncmds' = ncmds + 1
       /\ last' =
            [Ran("get") EXCEPT
               !.key = key, !.json = json, !.res = res,
               !.stdout =
                 IF res.kind # "ok" THEN <<>>
                 ELSE IF HasKey(l.val, key)
                   THEN << [tag |-> "value", text |-> String(l.val)],
                           [tag |-> "source", scope |-> "local",
                            path |-> getLocalConfigPath] >>
                 ELSE IF HasKey(g.val, key)
                   THEN << [tag |-> "value", text |-> String(g.val)],
                           [tag |-> "source", scope |-> "global",
                            path |-> getGlobalConfigPath] >>
                 ELSE << [tag |-> "not set", key |-> key] >>,
               !.stderr = IF res.kind = "ok" THEN <<>> ELSE <<ErrorLine(res)>>,
               !.exit =
                 IF res.kind = "ok" /\ (HasKey(l.val, key) \/ HasKey(g.val, key))
                   THEN 0 ELSE 1]
       /\ UNCHANGED <<localFile, globalFile>>
       /\ UNCHANGED tokenVars
       /\ UNCHANGED commandVars

\* The source shown for a key by `config list` (part_003:177-187).
ListSource(key, lr, gr) ==
  IF key \in DOMAIN lr /\ key \in DOMAIN gr THEN "local (overrides global)"
  ELSE IF key \in DOMAIN lr THEN "local"
  ELSE "global"

\* config list [--json] (part_003:153-199)
ConfigList ==
  \E json \in BOOLEAN :
    LET g == readGlobalConfig(globalFile)
        l == readConfig(localFile)
        m == getMergedConfig
        res == IF g.kind # "ok" THEN g ELSE IF l.kind # "ok" THEN l ELSE m
        paths == << [tag |-> "path", path |-> getLocalConfigPath],
                    [tag |-> "path", path |-> getGlobalConfigPath] >>
    IN /\ ncmds < MaxCmds
       /\ ncmds' = ncmds + 1
       /\ last' =
            [Ran("list") EXCEPT
               !.json = json, !.res = res,
               !.merged = IF res.kind = "ok" THEN m.val ELSE Undefined,
               !.stdout =
                 IF res.kind # "ok" THEN <<>>
                 ELSE IF json THEN << [tag |-> "json", rec |-> Stringify(m.val.rec)] >>
                 ELSE IF DOMAIN m.val.rec = {}
                   THEN << [tag |-> "No configuration set"] >> \o paths
                 ELSE << [tag |-> "Configuration",
                          lines |-> { [key |-> k, text |-> StringOf(m.val.rec[k]),
                                       source |-> ListSource(k, OrEmpty(l.val),
                                                             OrEmpty(g.val))] :
                                      k \in DOMAIN m.val.rec }] >> \o paths,
               !.stderr = IF res.kind = "ok" THEN <<>> ELSE <<ErrorLine(res)>>,
               !.exit = IF res.kind = "ok" THEN 0 ELSE 1]
       /\ UNCHANGED <<localFile, globalFile>>
       /\ UNCHANGED tokenVars
       /\ UNCHANGED commandVars

\* The states a config file can be found in before a command runs: absent,
\* unreadable, not JSON, or a record that earlier runs wrote.
InitialRecords ==
  { EmptyRec,
    [k \in {"project", "defaultLimit"} |->
       IF k = "project" THEN Str(<<"a", "b", "c">>) ELSE Num(50)],
    [k \in {"project", "theme"} |->
       IF k = "project" THEN Str(<<"5", "0">>) ELSE Str(<<>>)] }

InitialFiles ==
  { [st |-> "ENOENT"], [st |-> "EACCES"], [st |-> "unparsable"] }
    \cup { Written(r) : r \in InitialRecords }

ConfigInit ==
  /\ localFile \in InitialFiles
  /\ globalFile \in InitialFiles
  /\ last = NoCommand
  /\ ncmds = 0

(***************************************************************************)
(* The project/app resolver and the request layer (firebase-project.ts),   *)
(* and the commands that use them.  Every fcc command is one process: the  *)
(* token cache is empty when a command starts.  Identifiers are strings,   *)
(* that is sequences of lexemes of one lexeme each.                        *)
(***************************************************************************)
\* JavaScript truthiness of a config or flag value (!projectId, config?.app).
TruthyValue(v) ==
  CASE v.t = "str" -> v.s # <<>>
    [] v.t = "num" -> v.n # 0
    [] v.t = "infinite" -> TRUE
    [] v.t = "obj" -> TRUE
    [] OTHER -> FALSE

\* config?.project, config?.app of what readConfig returned
ConfigField(v, key) ==
  IF v.t = "obj" /\ key \in DOMAIN v.rec THEN v.rec[key] ELSE Undefined

FirebaseRcPath == "<cwd>/.firebaserc"

\* readFirebaseRc (firebase-project.ts:115-135), of the file's state: the
\* default project id, or null.
readFirebaseRc(file) ==
  CASE file.st = "ENOENT" -> ROk(JsonNull)
    [] file.st = "EACCES" -> RErr("ReadFailed", {FirebaseRcPath})
    [] file.st = "unparsable" -> RErr("ConfigCorrupt", {FirebaseRcPath})
    [] file.val.t # "obj" -> RErr("ConfigCorrupt", {FirebaseRcPath})
    [] file.val.projects.t # "obj" -> ROk(JsonNull)
    [] file.val.projects.default.t = "undefined" -> ROk(JsonNull)
    [] OTHER -> ROk(file.val.projects.default)

\* (A variant of the lookup that reads both files before it looks at the flag.)
resolveProjectIdReadsFirst(flag) ==
  LET rc == readFirebaseRc(rcFile)
      cf == readConfig(localFile)
  IN IF rc.kind # "ok" THEN rc
     ELSE IF cf.kind # "ok" THEN cf
     ELSE IF TruthyValue(flag) THEN ROk(flag)
     ELSE IF TruthyValue(rc.val) THEN ROk(rc.val)
     ELSE IF TruthyValue(ConfigField(cf.val, "project"))
       THEN ROk(ConfigField(cf.val, "project"))
     ELSE RErr("Unresolvable", {"project"})

\* (A variant of the lookup that asks the local config before .firebaserc.)
resolveProjectIdConfigFirst(flag) ==
  IF TruthyValue(flag) THEN ROk(flag)
  ELSE LET cf == readConfig(localFile) IN
    IF cf.kind # "ok" THEN cf
    ELSE IF TruthyValue(ConfigField(cf.val, "project"))
      THEN ROk(ConfigField(cf.val, "project"))
    ELSE LET rc == readFirebaseRc(rcFile) IN
      IF rc.kind # "ok" THEN rc
      ELSE IF TruthyValue(rc.val) THEN ROk(rc.val)
      ELSE RErr("Unresolvable", {"project"})

\* The lookup of resolveProject (firebase-project.ts:190-207): the project
\* id of the flag, else of .firebaserc, else of the local config.
resolveProjectId(flag) ==
  IF TruthyValue(flag) THEN ROk(flag)
  ELSE LET rc == readFirebaseRc(rcFile) IN
    IF rc.kind # "ok" THEN rc
    ELSE IF TruthyValue(rc.val) THEN ROk(rc.val)
    ELSE LET cf == readConfig(localFile) IN
      IF cf.kind # "ok" THEN cf
      ELSE IF TruthyValue(ConfigField(cf.val, "project"))
        THEN ROk(ConfigField(cf.val, "project"))
        ELSE RErr("Unresolvable", {"project"})

\* The files the lookup of resolveProject reads (firebase-project.ts:192-201):
\* .firebaserc without a flag, .fcc.json when .firebaserc was read and gave
\* no id.
resolveProjectReads(flag) ==
  IF TruthyValue(flag) THEN {}
  ELSE LET rc == readFirebaseRc(rcFile) IN
    IF rc.kind = "ok" /\ ~TruthyValue(rc.val)
      THEN {<<"resolveProject", ".firebaserc">>, <<"resolveProject", ".fcc.json">>}
      ELSE {<<"resolveProject", ".firebaserc">>}

\* (A variant that trusts the raw id and takes no identity from the answer.)
FirebaseProjectRawId(id, body) ==
  [projectId |-> id, projectNumber |-> Undefined, displayName |-> Undefined]

\* The identity resolveProject returns (firebase-project.ts:214-219), of the
\* id it asked for and the body of the answer.
FirebaseProject(id, body) ==
  [projectId |-> body.projectId, projectNumber |-> body.projectNumber,
   displayName |-> body.displayName]

\* (A variant of the lookup of resolveApp that never asks the local config.)
resolveAppIdSkipsConfig(flag) ==
  IF TruthyValue(flag) THEN ROk(flag) ELSE ROk(Undefined)

\* The lookup of resolveApp before any request (firebase-project.ts:281-290):
\* the app id of the flag, else of the local config, else none yet.
resolveAppId(flag) ==
  IF TruthyValue(flag) THEN ROk(flag)
  ELSE LET cf == readConfig(localFile) IN
    IF cf.kind # "ok" THEN cf
    ELSE IF TruthyValue(ConfigField(cf.val, "app"))
      THEN ROk(ConfigField(cf.val, "app"))
      ELSE ROk(Undefined)

\* The file the lookup of resolveApp reads (firebase-project.ts:282-287).
resolveAppReads(flag) ==
  IF TruthyValue(flag) THEN {} ELSE {<<"resolveApp", ".fcc.json">>}

\* response.apps of a list answer: an absent field lists nothing.
AppsOf(body) == IF body.apps.t = "undefined" THEN <<>> ELSE body.apps.list

\* listApps (firebase-project.ts:238-262), of the two answers.
listApps(androidResponse, iosResponse) ==
  [i \in 1..Len(AppsOf(androidResponse)) |->
     [platform |-> "ANDROID", appId |-> AppsOf(androidResponse)[i]]]
  \o [i \in 1..Len(AppsOf(iosResponse)) |->
        [platform |-> "IOS", appId |-> AppsOf(iosResponse)[i]]]

(***************************************************************************)
(* The answers of the two APIs, and what the request layer makes of them.  *)
(* An error is the kind of its message, the status code and the body text  *)
(* the message (or the error object) carries, and the strings the message  *)
(* mentions.                                                               *)
(***************************************************************************)
ApiOk(v) == [kind |-> "ok", val |-> v]
ApiErr(k, st, body, ms) == [kind |-> k, status |-> st, body |-> body, mentions |-> ms]

ApiErrorStatuses == {401, 403, 404, 429, 500}
NoContent == 204
ErrorText == "{\"error\":\"not found\"}"
EmptyText == ""
NoApiResponse == [net |-> FALSE, status |-> 0, text |-> EmptyText, body |-> Undefined]

\* The error firebaseApiGet throws for a non-2xx answer
\* (firebase-project.ts:84-102).
firebaseApiError(r) ==
  CASE r.status = 401 -> ApiErr("NotAuthenticated", {}, {}, {})
    [] r.status = 403 -> ApiErr("PermissionDenied", {}, {}, {})
    [] r.status = 404 -> ApiErr("NotFound", {}, {r.text}, {})
    [] OTHER -> ApiErr("UpstreamError", {r.status}, {r.text}, {})

\* firebaseApiGet after its fetch settled (firebase-project.ts:79-108).
firebaseApiGet(r) ==
  IF ~r.net THEN ApiErr("NetworkError", {}, {}, {})
  ELSE IF ~ResponseOk(r) THEN firebaseApiError(r)
  ELSE IF r.body.t = "unparsable" THEN ApiErr("ProtocolError", {}, {}, {})
  ELSE ApiOk(r.body)

\* The CrashlyticsApiError request throws for a non-2xx answer
\* (firebase-project.ts:624-659).
requestError(projectNumber, appId, path, r) ==
  CASE r.status = 401 -> ApiErr("NotAuthenticated", {401}, {}, {})
    [] r.status = 403 -> ApiErr("PermissionDenied", {403}, {}, {})
    [] r.status = 404 ->
         ApiErr("NotFound", {404}, {}, {StringOf(projectNumber), StringOf(appId)})
    [] r.status = 429 -> ApiErr("RateLimited", {429}, {}, {})
    [] OTHER -> ApiErr("UpstreamError", {r.status}, {r.text}, {})

\* CrashlyticsClient.request after its fetch settled
\* (firebase-project.ts:616-676).
request(projectNumber, appId, path, r) ==
  IF ~r.net THEN ApiErr("NetworkError", {}, {}, {})
  ELSE IF ~ResponseOk(r) THEN requestError(projectNumber, appId, path, r)
  ELSE IF r.status = NoContent THEN ApiOk(Undefined)
  ELSE IF r.body.t = "unparsable" THEN ApiErr("ProtocolError", {}, {}, {})
  ELSE ApiOk(r.body)

\* `projects/${this.projectNumber}/apps/${this.appId}` (firebase-project.ts:559-561)
resourcePath(projectNumber, appId) ==
  <<"projects">> \o StringOf(projectNumber) \o <<"apps">> \o StringOf(appId)

(***************************************************************************)
(* One invocation of the request layer (firebaseApiGet, or                 *)
(* CrashlyticsClient.request): its getAccessToken call, the one request it *)
(* sends, and the result.  `tok` is what its getAccessToken call returned. *)
(***************************************************************************)
IdleInv ==
  [st |-> "idle", api |-> "none", what |-> "none", method |-> "", path |-> <<>>,
   tok |-> Pending, tokenPosts |-> 0, sent |-> 0, resp |-> NoApiResponse,
   result |-> Pending]

\* (A variant that sends the token the cache held before the call.)
AuthorizationHeaderOfCache(accessToken) ==
  [scheme |-> "Bearer", token |-> cachedAccessToken]

\* Authorization: `Bearer ${accessToken}` (firebase-project.ts:75, 603)
AuthorizationHeader(accessToken) == [scheme |-> "Bearer", token |-> accessToken]

\* The request an invocation sends (firebase-project.ts:72-78, 600-615);
\* `by` keeps what the invocation's getAccessToken call returned.
HttpRequest(i) ==
  [api |-> i.api, method |-> i.method, path |-> i.path,
   auth |-> AuthorizationHeader(i.tok.token), by |-> i.tok]

\* The POST of refreshAccessToken (index.ts:119-128): it carries no token.
TokenRequest ==
  [api |-> "token", method |-> "POST", path |-> <<"token">>,
   auth |-> [scheme |-> "none", token |-> null], by |-> Pending]

\* The synchronous prefix of an invocation (firebase-project.ts:67, 580):
\* getAccessToken returns the cached token and the request is sent, or the
\* refresh begins.
Invoke(api, what, method, path) ==
  IF CacheValid
    THEN [IdleInv EXCEPT !.st = "await", !.api = api, !.what = what,
                         !.method = method, !.path = path,
                         !.tok = Ok(cachedAccessToken), !.sent = 1]
    ELSE [IdleInv EXCEPT !.st = "refresh", !.api = api, !.what = what,
                         !.method = method, !.path = path]

Sends(i) == IF i.sent = 1 THEN <<HttpRequest(i)>> ELSE <<>>

\* The answers of the token endpoint the commands are run against.
CommandTokenResponses ==
  {NoResponse}
    \cup { r \in Responses :
             /\ r.status = 200
             /\ r.body \in TokenBodies
             /\ r.body.access_token = "ya29.A"
             /\ r.body.expires_in \in {30, 61} }

\* The answers of the two APIs.
ProjectNumbers == {Undefined, Str(<<"111">>)}
AndroidApps == {Undefined, [t |-> "list", list |-> <<Str(<<"and-1">>), Str(<<"and-2">>)>>]}
IosApps == {Undefined, [t |-> "list", list |-> <<Str(<<"ios-1">>)>>]}
IssueId == <<"abc">>
NoteId == <<"n1">>

JsonBodies(what) ==
  CASE what = "project" ->
         { [t |-> "obj", projectId |-> run.projectId, projectNumber |-> n,
            displayName |-> Str(<<"My", " ", "Project">>)] : n \in ProjectNumbers }
    [] what = "androidApps" -> { [t |-> "obj", apps |-> a] : a \in AndroidApps }
    [] what = "iosApps" -> { [t |-> "obj", apps |-> a] : a \in IosApps }
    [] what = "getIssue" -> { [t |-> "obj", id |-> Str(IssueId)] }
    [] what = "listEvents" -> { [t |-> "obj", events |-> Undefined] }
    [] OTHER -> { [t |-> "obj"] }

ApiResponses(what) ==
  {NoApiResponse}
    \cup { [net |-> TRUE, status |-> s, text |-> ErrorText, body |-> [t |-> "unparsable"]] :
             s \in ApiErrorStatuses }
    \cup { [net |-> TRUE, status |-> NoContent, text |-> EmptyText,
            body |-> [t |-> "unparsable"]],
           [net |-> TRUE, status |-> 200, text |-> "<html>",
            body |-> [t |-> "unparsable"]] }
    \cup { [net |-> TRUE, status |-> 200, text |-> "{...}", body |-> b] :
             b \in JsonBodies(what) }

\* (A variant that answers a 401 with a token refresh and a second request.)
AfterResponseRetries401(i, r, res) ==
  IF r.net /\ r.status = 401 /\ i.sent < 2
    THEN [i EXCEPT !.st = "refresh", !.resp = r]
    ELSE [i EXCEPT !.st = IF res.kind = "ok" THEN "ok" ELSE "failed",
                   !.resp = r, !.result = res]

\* The invocation returns or throws what the answer maps to
\* (firebase-project.ts:84-108, 624-676).
AfterResponse(i, r, res) ==
  [i EXCEPT !.st = IF res.kind = "ok" THEN "ok" ELSE "failed",
            !.resp = r, !.result = res]

(***************************************************************************)
(* The commands: `issues get` (part_003:419-493), `notes delete`           *)
(* (notes.ts:133-169), `apps list` (apps.ts:18-89), `set project` and      *)
(* `set app` (notes.ts:203-227).                                           *)
(***************************************************************************)
Commands == {"issues get", "notes delete", "apps list"}
FlagProjects == {Undefined, Str(<<"proj-A">>)}
FlagApps == {Undefined, Str(<<"app-F">>)}
SetProjectInputs == {<<"proj-D">>}
SetAppInputs == {<<"app-C">>}

NoRun ==
  [cmd |-> "none", pc |-> "idle", flagProject |-> Undefined, flagApp |-> Undefined,
   force |-> FALSE, answer |-> Undefined, looked |-> FALSE, reads |-> {},
   projectId |-> Undefined,
   projectBody |-> Undefined,
   project |-> Undefined, listed |-> Undefined, apps |-> <<>>, appId |-> Undefined,
   invoked |-> 0, error |-> Pending, stdout |-> <<>>, stderr |-> <<>>, exit |-> 0]

NoInvs == [p \in Procs |-> IdleInv]
NothingSaved == [project |-> Undefined, app |-> Undefined]

Halted == run.pc \in {"idle", "done", "failed"}
NoneFailed == \A p \in Procs : inv[p].st # "failed"
AllSettled == inv[1].st = "ok" /\ inv[2].st \in {"ok", "idle"}
FirstFailed == CHOOSE p \in Procs : inv[p].st = "failed"

\* outputError(error.message); process.exit(1)
Fail(r, e) ==
  [r EXCEPT !.pc = "failed", !.error = e,
            !.stderr = Append(@, [tag |-> "Error", error |-> e]), !.exit = 1]

\* console.log of the result; the action returns.
Succeed(r, line) == [r EXCEPT !.pc = "done", !.stdout = Append(@, line), !.exit = 0]

\* What the actions of a command leave alone.
parkedVars == <<now, ticks, credFile, pc, call, calls, parallel, globalFile, last,
                ncmds, rcFile, tool>>

\* A command starts in a new process (index.ts:41-42).
StartCommand ==
  /\ Halted
  /\ nruns < MaxRuns
  /\ \E cmd \in Commands, fp \in FlagProjects, fa \in FlagApps, force \in BOOLEAN :
       /\ force => cmd = "notes delete"
       /\ fa # Undefined => cmd = "issues get"
       /\ fp # Undefined => cmd # "notes delete"
       /\ run' = [NoRun EXCEPT
                    !.cmd = cmd, !.flagProject = fp, !.flagApp = fa, !.force = force,
                    !.pc = IF cmd = "notes delete" /\ ~force
                             THEN "confirm" ELSE "resolveProject",
                    !.stdout = IF cmd = "notes delete" /\ ~force
                                 THEN << [tag |-> "Are you sure", noteId |-> NoteId,
                                          issueId |-> IssueId] >>
                                 ELSE <<>>]
  /\ cachedAccessToken' = null
  /\ tokenExpiresAt' = 0
  /\ lastRefresh' = NoRefresh
  /\ inv' = NoInvs
  /\ http' = <<>>
  /\ nruns' = nruns + 1
  /\ UNCHANGED <<localFile, saved, nsets>>
  /\ UNCHANGED parkedVars

\* What the user types at the prompt, character by character.
ConfirmationInputs ==
  { <<"y", "\n">>, <<" ", "Y", "E", "S", " ", "\n">>, <<"n", "\n">>, <<"\n">>,
    <<"y", "e", "s", "!", "\n">> }

\* (A variant that compares the answer as typed.)
askConfirmationAsTyped(data) == data = <<"y", "\n">>

\* askConfirmation (notes.ts:179-193), of the data read from stdin:
\* data.toString().trim().toLowerCase() is "y" or "yes".
askConfirmation(data) ==
  LET trimmed == TrimEnd(TrimStart(data))
      toLowerCase(c) == CASE c = "Y" -> "y" [] c = "E" -> "e" [] c = "S" -> "s"
                          [] c = "N" -> "n" [] OTHER -> c
      answer == [i \in 1..Len(trimmed) |-> toLowerCase(trimmed[i])]
  IN answer = <<"y">> \/ answer = <<"y", "e", "s">>

\* askConfirmation settles (notes.ts:141-150).
AskConfirmation ==
  /\ run.pc = "confirm"
  /\ \E data \in ConfirmationInputs :
       run' = IF askConfirmation(data)
                THEN [run EXCEPT !.pc = "resolveProject", !.answer = Str(data)]
                ELSE Succeed([run EXCEPT !.answer = Str(data)],
                             [tag |-> "Deletion cancelled."])
  /\ UNCHANGED <<cachedAccessToken, tokenExpiresAt, lastRefresh, inv, http, nruns,
                 localFile, saved, nsets>>
  /\ UNCHANGED parkedVars

\* resolveProject up to its request (firebase-project.ts:187-212).
ResolveProject ==
  /\ run.pc = "resolveProject"
  /\ LET id == resolveProjectId(run.flagProject)
         i == Invoke("mgmt", "project", "GET", <<"projects">> \o id.val.s)
         rd == [run EXCEPT !.looked = TRUE,
                           !.reads = @ \cup resolveProjectReads(run.flagProject)]
     IN IF id.kind # "ok"
          THEN /\ run' = Fail(rd, id)
               /\ UNCHANGED <<inv, http>>
          ELSE /\ run' = [rd EXCEPT !.pc = "project",
                                    !.projectId = id.val, !.invoked = @ + 1]
               /\ inv' = [inv EXCEPT ![1] = i]
               /\ http' = http \o Sends(i)
  /\ UNCHANGED <<cachedAccessToken, tokenExpiresAt, lastRefresh, nruns, localFile,
                 saved, nsets>>
  /\ UNCHANGED parkedVars

\* The getAccessToken call of an invocation settles (index.ts:187-195,
\* 74-176); on success the invocation sends its request.
Refresh(p) ==
  /\ inv[p].st = "refresh"
  /\ NoneFailed
  /\ LET cred == readRefreshToken(credFile) IN
       IF cred.kind # "ok"
         THEN /\ inv' = [inv EXCEPT ![p].st = "failed", ![p].tok = cred,
                                    ![p].result = cred]
              /\ UNCHANGED <<cachedAccessToken, tokenExpiresAt, lastRefresh, http>>
         ELSE \E r \in CommandTokenResponses :
                LET res == IF r.net THEN refreshResult(r)
                                    ELSE Err("NetworkError", {}, {})
                    i == [inv[p] EXCEPT !.st = "await", !.tok = res,
                                        !.tokenPosts = @ + 1, !.sent = @ + 1]
                IN IF res.kind = "ok"
                     THEN /\ cachedAccessToken' = r.body.access_token
                          /\ tokenExpiresAt' = ExpiresAt(now, r.body.expires_in)
                          /\ lastRefresh' = [token |-> r.body.access_token,
                                             expires_in |-> r.body.expires_in,
                                             at |-> now]
                          /\ inv' = [inv EXCEPT ![p] = i]
                          /\ http' = http \o <<TokenRequest, HttpRequest(i)>>
                     ELSE /\ inv' = [inv EXCEPT ![p].st = "failed", ![p].tok = res,
                                                ![p].tokenPosts = @ + 1,
                                                ![p].result = res]
                          /\ http' = Append(http, TokenRequest)
                          /\ UNCHANGED <<cachedAccessToken, tokenExpiresAt, lastRefresh>>
  /\ UNCHANGED <<run, nruns, localFile, saved, nsets>>
  /\ UNCHANGED parkedVars

\* The fetch of an invocation settles.
Respond(p) ==
  /\ inv[p].st = "await"
  /\ NoneFailed
  /\ \E r \in ApiResponses(inv[p].what) :
       LET res == IF inv[p].api = "mgmt"
                    THEN firebaseApiGet(r)
                    ELSE request(run.project.projectNumber, run.appId, inv[p].path, r)
       IN inv' = [inv EXCEPT ![p] = AfterResponse(inv[p], r, res)]
  /\ UNCHANGED <<cachedAccessToken, tokenExpiresAt, lastRefresh, run, http, nruns,
                 localFile, saved, nsets>>
  /\ UNCHANGED parkedVars

\* resolveProject returns or throws (firebase-project.ts:210-219).
ProjectDone ==
  /\ run.pc = "project"
  /\ inv[1].st \in {"ok", "failed"}
  /\ run' = IF inv[1].st = "failed"
              THEN Fail(run, inv[1].result)
              ELSE [run EXCEPT
                      !.projectBody = inv[1].resp.body,
                      !.project = FirebaseProject(run.projectId, inv[1].result.val),
                      !.pc = IF run.cmd = "apps list" THEN "listApps" ELSE "resolveApp"]
  /\ inv' = NoInvs
  /\ UNCHANGED <<cachedAccessToken, tokenExpiresAt, lastRefresh, http, nruns,
                 localFile, saved, nsets>>
  /\ UNCHANGED parkedVars

\* The two requests of listApps, begun by one Promise.all
\* (firebase-project.ts:229-236).
ListAppsInvs(projectNumber) ==
  LET a == Invoke("mgmt", "androidApps", "GET",
                  <<"projects">> \o StringOf(projectNumber) \o <<"androidApps">>)
      b == Invoke("mgmt", "iosApps", "GET",
                  <<"projects">> \o StringOf(projectNumber) \o <<"iosApps">>)
  IN [p \in Procs |-> IF p = 1 THEN a ELSE b]

\* `apps list` calls listApps (apps.ts:24).
AppsList ==
  /\ run.pc = "listApps"
  /\ LET is == ListAppsInvs(run.project.projectNumber) IN
       /\ inv' = is
       /\ http' = http \o Sends(is[1]) \o Sends(is[2])
  /\ run' = [run EXCEPT !.pc = "apps", !.invoked = @ + 2]
  /\ UNCHANGED <<cachedAccessToken, tokenExpiresAt, lastRefresh, nruns, localFile,
                 saved, nsets>>
  /\ UNCHANGED parkedVars

\* resolveApp up to its requests (firebase-project.ts:277-300).
ResolveApp ==
  /\ run.pc = "resolveApp"
  /\ LET a == resolveAppId(run.flagApp)
         is == ListAppsInvs(run.project.projectNumber)
         rd == [run EXCEPT !.reads = @ \cup resolveAppReads(run.flagApp)]
     IN IF a.kind # "ok"
          THEN /\ run' = Fail(rd, a)
               /\ UNCHANGED <<inv, http>>
        ELSE IF TruthyValue(a.val)
          THEN /\ run' = [rd EXCEPT !.pc = "client", !.appId = a.val]
               /\ UNCHANGED <<inv, http>>
        ELSE IF ~TruthyValue(run.project.projectNumber)
          THEN /\ run' = Fail(rd, RErr("Unresolvable", {"app", "projectNumber"}))
               /\ UNCHANGED <<inv, http>>
        ELSE /\ run' = [rd EXCEPT !.pc = "apps", !.invoked = @ + 2]
             /\ inv' = is
             /\ http' = http \o Sends(is[1]) \o Sends(is[2])
  /\ UNCHANGED <<cachedAccessToken, tokenExpiresAt, lastRefresh, nruns, localFile,
                 saved, nsets>>
  /\ UNCHANGED parkedVars

\* listApps returns or throws; `apps list` prints the apps, resolveApp takes
\* the first (firebase-project.ts:238-262, 302-311; apps.ts:26-83).
AppsDone ==
  /\ run.pc = "apps"
  /\ ~NoneFailed \/ AllSettled
  /\ LET apps == listApps(inv[1].result.val, inv[2].result.val)
         r == [run EXCEPT !.apps = apps,
                          !.listed = [android |-> inv[1].resp.body,
                                      ios |-> inv[2].resp.body]]
     IN run' =
          IF ~NoneFailed THEN Fail(run, inv[FirstFailed].result)
          ELSE IF run.cmd = "apps list"
            THEN Succeed(r, [tag |-> "apps", apps |-> apps])
          ELSE IF Len(apps) = 0
            THEN Fail(r, RErr("Unresolvable", {"app", "apps"}))
          ELSE [r EXCEPT !.appId = apps[1].appId, !.pc = "client"]
  /\ inv' = NoInvs
  /\ UNCHANGED <<cachedAccessToken, tokenExpiresAt, lastRefresh, http, nruns,
                 localFile, saved, nsets>>
  /\ UNCHANGED parkedVars

\* The requests of the command's client (part_003:431-434, notes.ts:154-156;
\* firebase-project.ts:684-689, 711-745, 870-875).
ClientInvs ==
  LET rp == resourcePath(run.project.projectNumber, run.appId)
      getIssue == Invoke("crash", "getIssue", "GET", rp \o <<"issues">> \o IssueId)
      listEvents == Invoke("crash", "listEvents", "GET", rp \o <<"events">>)
      deleteNote == Invoke("crash", "deleteNote", "DELETE",
                           rp \o <<"issues">> \o IssueId \o <<"notes">> \o NoteId)
  IN IF run.cmd = "issues get"
       THEN [p \in Procs |-> IF p = 1 THEN getIssue ELSE listEvents]
       ELSE [p \in Procs |-> IF p = 1 THEN deleteNote ELSE IdleInv]

ClientRequest ==
  /\ run.pc = "client"
  /\ inv' = ClientInvs
  /\ http' = http \o Sends(ClientInvs[1]) \o Sends(ClientInvs[2])
  /\ run' = [run EXCEPT !.pc = "data",
                        !.invoked = @ + (IF run.cmd = "issues get" THEN 2 ELSE 1)]
  /\ UNCHANGED <<cachedAccessToken, tokenExpiresAt, lastRefresh, nruns, localFile,
                 saved, nsets>>
  /\ UNCHANGED parkedVars

\* The command prints its result, or the error (part_003:436-491,
\* notes.ts:158-167).
ClientDone ==
  /\ run.pc = "data"
  /\ ~NoneFailed \/ AllSettled
  /\ run' =
       IF ~NoneFailed THEN Fail(run, inv[FirstFailed].result)
       ELSE IF run.cmd = "issues get"
         THEN Succeed(run, [tag |-> "Issue", issue |-> inv[1].result.val,
                            events |-> inv[2].result.val])
         ELSE Succeed(run, [tag |-> "deleted", noteId |-> NoteId, issueId |-> IssueId])
  /\ inv' = NoInvs
  /\ UNCHANGED <<cachedAccessToken, tokenExpiresAt, lastRefresh, http, nruns,
                 localFile, saved, nsets>>
  /\ UNCHANGED parkedVars

\* fcc set project <projectId> (notes.ts:206-214)
SetProject ==
  /\ Halted
  /\ nsets < MaxSets
  /\ \E projectId \in SetProjectInputs :
       LET w == writeConfig("project", Str(projectId))
           r == [NoRun EXCEPT !.cmd = "set project"]
       IN /\ localFile' = w.file
          /\ run' = IF w.res.kind = "ok"
                      THEN Succeed(r, [tag |-> "Project set to", id |-> projectId])
                      ELSE Fail(r, w.res)
          /\ saved' = IF w.res.kind = "ok"
                        THEN [saved EXCEPT !.project = Str(projectId)] ELSE saved
  /\ cachedAccessToken' = null
  /\ tokenExpiresAt' = 0
  /\ lastRefresh' = NoRefresh
  /\ inv' = NoInvs
  /\ http' = <<>>
  /\ nsets' = nsets + 1
  /\ UNCHANGED nruns
  /\ UNCHANGED parkedVars

\* fcc set app <appId> (notes.ts:219-227)
SetApp ==
  /\ Halted
  /\ nsets < MaxSets
  /\ \E appId \in SetAppInputs :
       LET w == writeConfig("app", Str(appId))
           r == [NoRun EXCEPT !.cmd = "set app"]
       IN /\ localFile' = w.file
          /\ run' = IF w.res.kind = "ok"
                      THEN Succeed(r, [tag |-> "App set to", id |-> appId])
                      ELSE Fail(r, w.res)
          /\ saved' = IF w.res.kind = "ok"
                        THEN [saved EXCEPT !.app = Str(appId)] ELSE saved
  /\ cachedAccessToken' = null
  /\ tokenExpiresAt' = 0
  /\ lastRefresh' = NoRefresh
  /\ inv' = NoInvs
  /\ http' = <<>>
  /\ nsets' = nsets + 1
  /\ UNCHANGED nruns
  /\ UNCHANGED parkedVars

(***************************************************************************)
(* Functions of the library run on their own, one at a time, under         *)
(* SpecTools: timeAgo (utils/date.ts), listProjects (firebase-project.ts)   *)
(* and the app resolution of `reports top-devices` (reports.ts).  `tool`   *)
(* holds the function, its inputs and its result.                          *)
(***************************************************************************)
NoTool == [op |-> "none", st |-> "idle"]

\* timeAgo (date.ts:69-112), of diffMs = now - date given as its whole
\* seconds and the milliseconds left over: Math.floor(diffMs / 1000) is the
\* first, and diffMs < 0 when the first is negative.
timeAgo(diffMs) ==
  LET seconds == diffMs[1]
      minutes == seconds \div 60
      hours == minutes \div 60
      days == hours \div 24
      weeks == days \div 7
      months == days \div 30
      years == days \div 365
      plural(n, unit) == [n |-> n, unit |-> IF n > 1 THEN unit \o "s" ELSE unit]
  IN IF seconds < 0 THEN [text |-> "just now"]
     ELSE IF seconds < 60 THEN [text |-> "just now"]
     ELSE IF minutes < 60 THEN [n |-> minutes, unit |-> "m"]
     ELSE IF hours < 24 THEN [n |-> hours, unit |-> "h"]
     ELSE IF days < 7 THEN plural(days, "day")
     ELSE IF weeks < 5 THEN plural(weeks, "week")
     ELSE IF months < 12 THEN plural(months, "month")
     ELSE plural(years, "year")

\* Elapsed times around every threshold of timeAgo, and a future date.
TimeAgoInputs ==
  LET day == 86400 IN
    { <<sec, ms>> :
        sec \in {-1, 0, 59, 60, 119, 3599, 3600, 7200, day - 1, day, 2 * day,
                 7 * day - 1, 7 * day, 14 * day, 35 * day - 1, 35 * day,
                 60 * day, 359 * day, 360 * day, 365 * day - 1, 365 * day,
                 730 * day},
        ms \in {0, 999} }

TimeAgo ==
  /\ tool.st # "await"
  /\ \E diffMs \in TimeAgoInputs :
       tool' = [op |-> "timeAgo", st |-> "done", diffMs |-> diffMs,
                out |-> timeAgo(diffMs)]
  /\ UNCHANGED <<tokenVars, configVars, rcFile, run, inv, http, saved, nruns, nsets>>

\* What the management API can answer to a page request: a page with or
\* without results and with a next-page token, an empty one or none, or an
\* error.
ProjectPages ==
  { [net |-> TRUE, status |-> 200, text |-> "{...}",
     body |-> [t |-> "obj", results |-> rs, nextPageToken |-> tk]] :
      rs \in {Undefined, [t |-> "list", list |-> <<Str(<<"proj-A">>)>>],
              [t |-> "list", list |-> <<Str(<<"proj-B">>), Str(<<"proj-C">>)>>]},
      tk \in {Undefined, Str(<<>>), Str(<<"t1">>), Str(<<"t2">>)} }
    \cup { NoApiResponse,
           [net |-> TRUE, status |-> 500, text |-> ErrorText,
            body |-> [t |-> "unparsable"]] }

\* listProjects up to its first request (firebase-project.ts:144-155):
\* pageSize 100 and no page token.
ListProjects ==
  /\ tool.st # "await"
  /\ tool' = [op |-> "listProjects", st |-> "await", projects |-> <<>>,
              requests |-> << [pageSize |-> "100", pageToken |-> Undefined] >>,
              pages |-> <<>>, result |-> Pending]
  /\ UNCHANGED <<tokenVars, configVars, rcFile, run, inv, http, saved, nruns, nsets>>

\* (A variant of the loop that goes on only while a page has results.)
ListProjectsPageWhileResults ==
  /\ tool.op = "listProjects"
  /\ tool.st = "await"
  /\ \E r \in ProjectPages :
       LET res == firebaseApiGet(r)
           got == IF res.val.results.t = "undefined" THEN <<>>
                  ELSE res.val.results.list
           pageToken == res.val.nextPageToken
           more == got # <<>> /\ TruthyValue(pageToken)
       IN /\ (res.kind = "ok" /\ more) => Len(tool.requests) < MaxPages
          /\ tool' =
               IF res.kind # "ok"
                 THEN [tool EXCEPT !.st = "failed", !.result = res,
                                   !.pages = Append(@, r)]
               ELSE IF more
                 THEN [tool EXCEPT !.projects = @ \o got, !.pages = Append(@, r),
                                   !.requests = Append(@, [pageSize |-> "100",
                                                           pageToken |-> pageToken])]
               ELSE [tool EXCEPT !.st = "done", !.projects = @ \o got,
                                 !.pages = Append(@, r),
                                 !.result = ApiOk(tool.projects \o got)]
  /\ UNCHANGED <<tokenVars, configVars, rcFile, run, inv, http, saved, nruns, nsets>>

\* One turn of the loop of listProjects (firebase-project.ts:147-171): the
\* request settles; the error is thrown, or the page's results are pushed and
\* the next page is requested with the page's token, or the list returned.
ListProjectsPage ==
  /\ tool.op = "listProjects"
  /\ tool.st = "await"
  /\ \E r \in ProjectPages :
       LET res == firebaseApiGet(r)
           got == IF res.val.results.t = "undefined" THEN <<>>
                  ELSE res.val.results.list
           pageToken == res.val.nextPageToken
       IN /\ (res.kind = "ok" /\ TruthyValue(pageToken)) =>
               Len(tool.requests) < MaxPages
          /\ tool' =
               IF res.kind # "ok"
                 THEN [tool EXCEPT !.st = "failed", !.result = res,
                                   !.pages = Append(@, r)]
               ELSE IF TruthyValue(pageToken)
                 THEN [tool EXCEPT !.projects = @ \o got, !.pages = Append(@, r),
                                   !.requests = Append(@, [pageSize |-> "100",
                                                           pageToken |-> pageToken])]
               ELSE [tool EXCEPT !.st = "done", !.projects = @ \o got,
                                 !.pages = Append(@, r),
                                 !.result = ApiOk(tool.projects \o got)]
  /\ UNCHANGED <<tokenVars, configVars, rcFile, run, inv, http, saved, nruns, nsets>>

\* resolveApp (firebase-project.ts:277-312) with a project number, of the
\* flag and of the two answers listApps gets if it is called.
resolveApp(flag, androidResponse, iosResponse) ==
  LET a == resolveAppId(flag)
      apps == listApps(androidResponse, iosResponse)
  IN IF a.kind # "ok" THEN a
     ELSE IF TruthyValue(a.val) THEN a
     ELSE IF Len(apps) = 0 THEN RErr("Unresolvable", {"app", "apps"})
     ELSE ROk(apps[1].appId)

\* detectAppPlatform (reports.ts:149-156), of the app id and the list:
\* apps.find((a) => a.appId === appId)?.platform
detectAppPlatform(appId, apps) ==
  IF \E i \in 1..Len(apps) : apps[i].appId = appId
    THEN apps[CHOOSE i \in 1..Len(apps) :
                /\ apps[i].appId = appId
                /\ \A j \in 1..(i - 1) : apps[j].appId # appId].platform
    ELSE "undefined"

\* `reports top-devices` without --platform, up to the choice of the report
\* (reports.ts:316-346): resolveClient resolves the app of the client,
\* resolveApp is called again for the app to detect, and detectAppPlatform
\* lists the apps; every listApps call gets its own answers.
TopDevices ==
  /\ tool.st # "await"
  /\ \E flag \in FlagApps,
        a1 \in JsonBodies("androidApps"), i1 \in JsonBodies("iosApps"),
        a2 \in JsonBodies("androidApps"), i2 \in JsonBodies("iosApps"),
        a3 \in JsonBodies("androidApps"), i3 \in JsonBodies("iosApps") :
       LET client == resolveApp(flag, a1, i1)
           appId == resolveApp(flag, a2, i2)
           platform == detectAppPlatform(appId.val, listApps(a3, i3))
           t == [op |-> "top-devices", st |-> "done", flagApp |-> flag,
                 clientApp |-> client.val, appId |-> appId.val,
                 listed |-> <<listApps(a1, i1), listApps(a2, i2), listApps(a3, i3)>>,
                 platform |-> "undefined", reportName |-> "none"]
       IN tool' =
            IF client.kind # "ok" \/ appId.kind # "ok"
              THEN [t EXCEPT !.st = "failed"]
              ELSE [t EXCEPT !.platform = platform,
                             !.reportName = IF platform = "IOS"
                                              THEN "TOP_APPLE_DEVICES"
                                              ELSE "TOP_ANDROID_DEVICES"]
  /\ UNCHANGED <<tokenVars, configVars, rcFile, run, inv, http, saved, nruns, nsets>>

\* The files a command can find: the credential, .firebaserc, the local
\* config.
CommandCredFiles ==
  { [st |-> "ENOENT"],
    [st |-> "json",
     val |-> [t |-> "obj",
              tokens |-> [t |-> "obj", refresh_token |-> Str("1//refresh")]]] }

RcFiles ==
  { [st |-> "ENOENT"], [st |-> "unparsable"],
    [st |-> "json",
     val |-> [t |-> "obj",
              projects |-> [t |-> "obj", default |-> Str(<<"proj-B">>)]]] }

CommandLocalFiles ==
  { [st |-> "ENOENT"], [st |-> "unparsable"],
    Written([k \in {"project", "app"} |->
               IF k = "project" THEN Str(<<"proj-C">>) ELSE Str(<<"app-C">>)]) }

CommandParked ==
  /\ tool = NoTool
  /\ rcFile = [st |-> "ENOENT"]
  /\ run = NoRun
  /\ inv = NoInvs
  /\ http = <<>>
  /\ saved = NothingSaved
  /\ nruns = 0
  /\ nsets = 0

InitCommand ==
  /\ TokenInit
  /\ credFile \in CommandCredFiles
  /\ localFile \in CommandLocalFiles
  /\ globalFile = Written([k \in {"project", "app"} |->
                             IF k = "project" THEN Str(<<"proj-G">>)
                                              ELSE Str(<<"app-G">>)])
  /\ last = NoCommand
  /\ ncmds = 0
  /\ rcFile \in RcFiles
  /\ tool = NoTool
  /\ run = NoRun
  /\ inv = NoInvs
  /\ http = <<>>
  /\ saved = NothingSaved
  /\ nruns = 0
  /\ nsets = 0

NextCommand ==
  \/ StartCommand
  \/ AskConfirmation
  \/ ResolveProject
  \/ \E p \in Procs : Refresh(p)
  \/ \E p \in Procs : Respond(p)
  \/ ProjectDone
  \/ AppsList
  \/ ResolveApp
  \/ AppsDone
  \/ ClientRequest
  \/ ClientDone
  \/ SetProject
  \/ SetApp

SpecCommand == InitCommand /\ [][NextCommand]_vars

TokenParked == TokenInit /\ credFile = [st |-> "ENOENT"]

InitTools ==
  /\ TokenParked
  /\ localFile \in CommandLocalFiles
  /\ globalFile = [st |-> "ENOENT"]
  /\ last = NoCommand
  /\ ncmds = 0
  /\ CommandParked

NextTools ==
  \/ TimeAgo
  \/ ListProjects
  \/ ListProjectsPage
  \/ TopDevices

SpecTools == InitTools /\ [][NextTools]_vars

\* The continuation of an awaited request runs once the request has settled.
SpecToolsFair == SpecTools /\ WF_vars(ListProjectsPage)

InitConfig == ConfigInit /\ TokenParked /\ CommandParked

NextConfig ==
  \/ ConfigSet
  \/ ConfigSetGlobal
  \/ ConfigGet
  \/ ConfigList

SpecConfig == InitConfig /\ [][NextConfig]_vars

ConfigParked ==
  /\ localFile = [st |-> "ENOENT"]
  /\ globalFile = [st |-> "ENOENT"]
  /\ last = NoCommand
  /\ ncmds = 0

InitToken == TokenInit /\ ConfigParked /\ CommandParked

NextToken ==
  \/ SingleRequest
  \/ ParallelRequests
  \/ \E p \in Procs : ReadFileDone(p)
  \/ \E p \in Procs : FetchFails(p)
  \/ \E p \in Procs : FetchResponds(p)
  \/ \E p \in Procs : JsonDone(p)
  \/ Tick

SpecToken == InitToken /\ [][NextToken]_vars

(***************************************************************************)
(* Properties of the token cache.                                          *)
(***************************************************************************)
\* What a call saw when it began, stated from the call record alone.
BeganWithToken(p) == pc[p] # "idle" /\ call[p].startTok # null
BeganBeforeExpiry(p) == BeganWithToken(p) /\ call[p].startNow < call[p].startExp
BeganExpired(p) == BeganWithToken(p) /\ call[p].startNow >= call[p].startExp
Finished(p) == pc[p] \in {"returned", "thrown"}

\* C1: a getAccessToken call made after a successful one while now <
\* expiresAt reads no file, sends no request, and returns the very token
\* string the refresh returned.
C1_CachedCallNoNetwork ==
  \A p \in Procs :
    BeganBeforeExpiry(p) =>
      /\ pc[p] = "returned"
      /\ call[p].reads = 0
      /\ call[p].posts = 0
      /\ call[p].result = Ok(lastRefresh.token)
      /\ call[p].result.token = call[p].startTok

\* A later call, made after time has passed, was served from the cache.
C1_Witness ==
  \E p \in Procs :
    /\ BeganBeforeExpiry(p)
    /\ pc[p] = "returned"
    /\ call[p].startNow > lastRefresh.at
    /\ calls >= 2

\* C2: a getAccessToken call made once the cached token's expiresAt has
\* passed (now >= expiresAt) sends exactly one POST to the token endpoint,
\* and when it succeeds the cache holds the token that POST returned.
C2_ExpiredCallRefreshesOnce ==
  \A p \in Procs :
    BeganExpired(p) =>
      /\ call[p].posts = IF pc[p] = "readFile" THEN 0 ELSE 1
      /\ pc[p] = "returned" =>
           /\ call[p].wrote
           /\ call[p].result = Ok(call[p].resp.body.access_token)
           /\ call[p].endTok = call[p].resp.body.access_token

\* An expired token was replaced by a different one.
C2_Witness ==
  \E p \in Procs :
    /\ BeganExpired(p)
    /\ call[p].startNow > call[p].startExp
    /\ pc[p] = "returned"
    /\ call[p].endTok # call[p].startTok

\* C3: at most one token refresh is in flight at any time, and the two
\* requests of one Promise.all never both refresh and both write the cache.
C3_SingleFlight ==
  /\ Cardinality({p \in Procs : pc[p] \in InFlight}) <= 1
  /\ parallel => ~(call[1].wrote /\ call[2].wrote)

\* C4: the cache holds expiresAt = (time of the refresh) + server_ttl - 60 s;
\* a call is served from the cache only before that time, and never when
\* server_ttl <= 60.
C4_SafetyMargin ==
  /\ cachedAccessToken # null =>
       /\ cachedAccessToken = lastRefresh.token
       /\ tokenExpiresAt =
            lastRefresh.at
              + (lastRefresh.expires_in - SafetyMarginSeconds) * MsPerSecond
  /\ \A p \in Procs :
       (pc[p] = "returned" /\ ~call[p].wrote) =>
         /\ call[p].startNow <
              lastRefresh.at
                + (lastRefresh.expires_in - SafetyMarginSeconds) * MsPerSecond
         /\ lastRefresh.expires_in > SafetyMarginSeconds

\* A token with a TTL of at most 60 s is cached, and the next call refreshes.
C4_Witness ==
  \E p \in Procs :
    /\ BeganWithToken(p)
    /\ call[p].startTok = lastRefresh.token
    /\ lastRefresh.expires_in <= SafetyMarginSeconds
    /\ call[p].startNow = lastRefresh.at
    /\ pc[p] = "fetch"

\* C5: without a valid cached token, a missing file or credential field makes
\* getAccessToken fail NotAuthenticated, an unparsable file ConfigCorrupt
\* naming the file's path; no request is sent in either case.
HasCredential ==
  /\ credFile.st = "json"
  /\ credFile.val.t = "obj"
  /\ credFile.val.tokens.t = "obj"
  /\ credFile.val.tokens.refresh_token.t = "str"
  /\ credFile.val.tokens.refresh_token.s # ""

C5_NoCredentialNoNetwork ==
  \A p \in Procs :
    (pc[p] # "idle" /\ ~BeganBeforeExpiry(p) /\ credFile.st # "EACCES"
       /\ ~HasCredential) =>
      /\ pc[p] \in {"readFile", "thrown"}
      /\ call[p].posts = 0
      /\ pc[p] = "thrown" =>
           IF credFile.st = "unparsable"
             THEN /\ call[p].result.kind = "ConfigCorrupt"
                  /\ call[p].result.names = {getFirebaseConfigPath}
             ELSE call[p].result.kind = "NotAuthenticated"

\* The call failed on an unparsable file.
C5_Witness ==
  \E p \in Procs :
    /\ pc[p] = "thrown"
    /\ credFile.st = "unparsable"
    /\ call[p].reads = 1
    /\ call[p].posts = 0

\* C6: the token exchange maps a network failure to NetworkError, a non-2xx
\* answer with invalid_grant to NotAuthenticated, every other non-2xx answer
\* to UpstreamError carrying the status code, a malformed 2xx body to
\* ProtocolError.
BodyError(b) == IF b.t = "obj" THEN b.error ELSE ""

C6_TokenExchangeErrors ==
  \A p \in Procs :
    (pc[p] = "thrown" /\ call[p].posts = 1) =>
      LET r == call[p].resp
          res == call[p].result
      IN /\ ~r.net => res.kind = "NetworkError"
         /\ (r.net /\ ~ResponseOk(r) /\ BodyError(r.body) = "invalid_grant")
              => res.kind = "NotAuthenticated"
         /\ (r.net /\ ~ResponseOk(r) /\ BodyError(r.body) # "invalid_grant")
              => (res.kind = "UpstreamError" /\ res.status = {r.status})
         /\ (r.net /\ ResponseOk(r) /\ r.body.t = "unparsable")
              => res.kind = "ProtocolError"

(***************************************************************************)
(* Properties of the config store.                                         *)
(***************************************************************************)
\* The record a config file holds, an absent file holding none.
FileRec(file) == IF file.st = "json" THEN file.val.rec ELSE EmptyRec
Readable(file) == file.st \in {"json", "ENOENT"}
Wrote(cmd) == last.cmd = cmd /\ last.exit = 0

\* C7: the merged config is the shallow union of the two files' records: it
\* has the keys of either, a key of the local file has the local value, a
\* key of the global file alone has the global value.
C7_MergedIsUnionLocalWins ==
  (last.cmd = "list" /\ Readable(localFile) /\ Readable(globalFile)) =>
    /\ last.res.kind = "ok"
    /\ last.merged.t = "obj"
    /\ DOMAIN last.merged.rec = DOMAIN FileRec(globalFile) \cup DOMAIN FileRec(localFile)
    /\ \A k \in DOMAIN FileRec(localFile) :
         last.merged.rec[k] = FileRec(localFile)[k]
    /\ \A k \in DOMAIN FileRec(globalFile) \ DOMAIN FileRec(localFile) :
         last.merged.rec[k] = FileRec(globalFile)[k]

\* A merge of files that disagree on a key and each hold a key of their own.
C7_Witness ==
  /\ last.cmd = "list"
  /\ last.res.kind = "ok"
  /\ \E k \in DOMAIN FileRec(localFile) \cap DOMAIN FileRec(globalFile) :
       FileRec(localFile)[k] # FileRec(globalFile)[k]
  /\ DOMAIN FileRec(globalFile) \ DOMAIN FileRec(localFile) # {}
  /\ DOMAIN FileRec(localFile) \ DOMAIN FileRec(globalFile) # {}

\* C8: after a successful `config set` or `config set-global`, reading the
\* same scope gives exactly the coerced value for that key.
C8_RoundTrip ==
  /\ Wrote("set") =>
       LET r == readConfig(localFile) IN
         /\ r.kind = "ok"
         /\ last.key \in DOMAIN OrEmpty(r.val)
         /\ OrEmpty(r.val)[last.key] = last.coerced.val
  /\ Wrote("set-global") =>
       LET r == readGlobalConfig(globalFile) IN
         /\ r.kind = "ok"
         /\ last.key \in DOMAIN OrEmpty(r.val)
         /\ OrEmpty(r.val)[last.key] = last.coerced.val

\* The file differs from the file before in no key but `key`.
SameButKey(before, after, key) ==
  /\ after.st = "json"
  /\ DOMAIN FileRec(after) = DOMAIN FileRec(before) \cup {key}
  /\ \A k \in DOMAIN FileRec(before) \ {key} : FileRec(after)[k] = FileRec(before)[k]

\* C9: a write changes one key of one file: `config set` leaves the global
\* file and the other local keys as they were (creating the local file when
\* it was absent), `config set-global` the local file and the other global
\* keys; a command that fails, and a command that only reads, changes
\* neither file.
C9_WriteOneKeyOneFile ==
  /\ last.cmd = "set" =>
       /\ globalFile = last.preGlobal
       /\ IF last.exit = 0
            THEN SameButKey(last.preLocal, localFile, last.key)
            ELSE localFile = last.preLocal
  /\ last.cmd = "set-global" =>
       /\ localFile = last.preLocal
       /\ IF last.exit = 0
            THEN SameButKey(last.preGlobal, globalFile, last.key)
            ELSE globalFile = last.preGlobal
  /\ last.cmd \in {"get", "list"} =>
       /\ localFile = last.preLocal
       /\ globalFile = last.preGlobal

\* A local write beside other local keys, with a global key the local file
\* lacks.
C9_Witness ==
  /\ Wrote("set")
  /\ DOMAIN FileRec(last.preLocal) \ {last.key} # {}
  /\ DOMAIN FileRec(globalFile) \ DOMAIN FileRec(localFile) # {}

\* C10: in both scopes a missing file reads as an empty record without
\* error and a file that is not JSON fails the read with ConfigCorrupt naming
\* the file's path; a write to such a file fails and leaves it as it was.
C10_MissingAndMalformed ==
  /\ localFile.st = "ENOENT" =>
       /\ readConfig(localFile).kind = "ok"
       /\ OrEmpty(readConfig(localFile).val) = EmptyRec
  /\ globalFile.st = "ENOENT" =>
       /\ readGlobalConfig(globalFile).kind = "ok"
       /\ OrEmpty(readGlobalConfig(globalFile).val) = EmptyRec
  /\ localFile.st = "unparsable" =>
       readConfig(localFile) = RErr("ConfigCorrupt", {getLocalConfigPath})
  /\ globalFile.st = "unparsable" =>
       readGlobalConfig(globalFile) = RErr("ConfigCorrupt", {getGlobalConfigPath})
  /\ (last.cmd = "list" /\ last.preLocal.st = "ENOENT" /\ last.preGlobal.st = "ENOENT") =>
       (last.exit = 0 /\ last.merged = Obj(EmptyRec))
  /\ (last.cmd = "set" /\ last.coerced.kind = "ok" /\ last.preLocal.st = "unparsable") =>
       /\ last.exit = 1
       /\ last.res = RErr("ConfigCorrupt", {getLocalConfigPath})
       /\ localFile = last.preLocal
  /\ (last.cmd = "set-global" /\ last.coerced.kind = "ok"
        /\ last.preGlobal.st = "unparsable") =>
       /\ last.exit = 1
       /\ last.res = RErr("ConfigCorrupt", {getGlobalConfigPath})
       /\ globalFile = last.preGlobal

\* A write to a global file that is not JSON has failed.
C10_Witness ==
  /\ last.cmd = "set-global"
  /\ last.coerced.kind = "ok"
  /\ last.preGlobal.st = "unparsable"
  /\ last.exit = 1

\* A string that writes a number: blanks around an optional sign and either
\* digits or the word Infinity.
IsNumeral(s) ==
  LET body == TrimEnd(TrimStart(s))
      d == IF body # <<>> /\ Head(body) \in {"-", "+"} THEN Tail(body) ELSE body
  IN \/ d = <<"Infinity">>
     \/ d # <<>> /\ \A i \in 1..Len(d) : IsDigit(d[i])

NumericKey(key) == key \in DOMAIN KNOWN_CONFIG_KEYS /\ KNOWN_CONFIG_KEYS[key] = "number"

\* C11: `config set` and `config set-global` reject with InvalidValue every
\* string given for a numeric key that is not numeric, and then write no
\* file; they store the input of a string key as a string, and accept an
\* unknown key as a string with a warning, not an error.
C11_CoercionOrInvalidValue ==
  last.cmd \in {"set", "set-global"} =>
    /\ (NumericKey(last.key) /\ ~IsNumeral(last.input)) =>
         /\ last.coerced.kind = "InvalidValue"
         /\ last.exit = 1
         /\ localFile = last.preLocal
         /\ globalFile = last.preGlobal
    /\ (NumericKey(last.key) /\ IsNumeral(last.input)) =>
         last.coerced = ROk(ToNumber(last.input))
    /\ ~NumericKey(last.key) => last.coerced = ROk(Str(last.input))
    /\ last.key \notin DOMAIN KNOWN_CONFIG_KEYS =>
         /\ [tag |-> "Warning", key |-> last.key] = Head(last.stderr)
         /\ Readable(IF last.cmd = "set" THEN last.preLocal ELSE last.preGlobal)
              => last.exit = 0

\* C19: a command that fails has written nothing to standard output, has
\* written its error to standard error, and exits with a non-zero code.
C19_FailurePrintsOnlyError ==
  (last.cmd # "none" /\ last.exit # 0) =>
    /\ last.stdout = <<>>
    /\ \E i \in 1..Len(last.stderr) : last.stderr[i].tag = "Error"

(***************************************************************************)
(* Properties of the resolver and the request layer.                       *)
(***************************************************************************)
\* What the files hold, read off their state.
RcReadable == rcFile.st \in {"ENOENT", "json"}
RcDefault ==
  IF rcFile.st = "json" /\ rcFile.val.t = "obj" /\ rcFile.val.projects.t = "obj"
    THEN rcFile.val.projects.default ELSE Undefined
LocalField(key) ==
  IF key \in DOMAIN FileRec(localFile) THEN FileRec(localFile)[key] ELSE Undefined

\* resolveProject has looked for a project id.
Resolving == run.cmd \in Commands /\ run.looked
\* resolveProject has returned.
ProjectResolved == run.cmd \in Commands /\ run.project # Undefined
\* The requests sent so far to an API, and those that ask for a project.
SentTo(api) == SelectSeq(http, LAMBDA e : e.api = api)
ProjectRequests ==
  SelectSeq(http, LAMBDA e : e.api = "mgmt" /\ Len(e.path) = 2 /\ e.path[1] = "projects")

\* C12: resolveProject takes the project id of the flag; without a flag the
\* default project of .firebaserc; without either the `project` key of the
\* local config; with none of the three it fails with Unresolvable.
C12_ProjectPrecedence ==
  Resolving =>
    /\ run.flagProject # Undefined => run.projectId = run.flagProject
    /\ (run.flagProject = Undefined /\ RcDefault # Undefined) =>
         run.projectId = RcDefault
    /\ (run.flagProject = Undefined /\ RcReadable /\ RcDefault = Undefined
          /\ LocalField("project") # Undefined) =>
         run.projectId = LocalField("project")
    /\ (run.flagProject = Undefined /\ RcReadable /\ RcDefault = Undefined
          /\ Readable(localFile) /\ LocalField("project") = Undefined) =>
         /\ run.pc = "failed"
         /\ run.error.kind = "Unresolvable"
         /\ run.projectId = Undefined
    /\ \A i \in 1..Len(ProjectRequests) :
         ProjectRequests[i].path = <<"projects">> \o run.projectId.s

\* Without a flag, .firebaserc wins over a local config that names another
\* project, and the command ran to its end with that project.
C12_Witness ==
  /\ run.cmd = "issues get"
  /\ run.pc = "done"
  /\ run.flagProject = Undefined
  /\ RcDefault = Str(<<"proj-B">>)
  /\ LocalField("project") = Str(<<"proj-C">>)
  /\ run.projectId = Str(<<"proj-B">>)

\* C13 as stated: whenever resolveProject has found a project id and has
\* finished, it has sent exactly one GET projects/<id> (and none, nor a
\* token refresh, when it found no id).
C13_AlwaysOneProjectRequest ==
  /\ (Resolving /\ run.projectId # Undefined /\ run.pc # "project") =>
       Len(ProjectRequests) = 1
  /\ (Resolving /\ run.projectId = Undefined) => http = <<>>

\* C13, amended: resolveProject with a project id calls getAccessToken and,
\* once that has returned a token, has sent exactly one GET projects/<id>
\* (none if it fails); what resolveProject returns is the project id, number and
\* display name of that request's answer; with no id it fails having sent
\* no request and refreshed no token.
C13_OneProjectRequestWithToken ==
  /\ (Resolving /\ run.projectId # Undefined) =>
       /\ Len(ProjectRequests) <= 1
       /\ \A i \in 1..Len(ProjectRequests) :
            /\ ProjectRequests[i].method = "GET"
            /\ ProjectRequests[i].path = <<"projects">> \o run.projectId.s
       /\ run.pc = "project" =>
            Len(ProjectRequests) = IF inv[1].tok.kind = "ok" THEN 1 ELSE 0
       /\ ProjectResolved =>
            /\ Len(ProjectRequests) = 1
            /\ run.project.projectId = run.projectBody.projectId
            /\ run.project.projectNumber = run.projectBody.projectNumber
            /\ run.project.displayName = run.projectBody.displayName
  /\ (Resolving /\ run.projectId = Undefined) =>
       /\ run.pc = "failed"
       /\ http = <<>>

\* The id of the local config was exchanged for the identity of the answer.
C13_Witness ==
  /\ ProjectResolved
  /\ run.flagProject = Undefined
  /\ run.projectId = Str(<<"proj-C">>)
  /\ run.project.projectNumber = Str(<<"111">>)
  /\ Len(SentTo("token")) = 1

\* The apps of the two answers, Android first, each in the answer's order.
Listed(body) == IF body.apps.t = "undefined" THEN <<>> ELSE body.apps.list
AppIdsListed == Listed(run.listed.android) \o Listed(run.listed.ios)
AppCommand == run.cmd \in {"issues get", "notes delete"}
NoAppGiven ==
  run.flagApp = Undefined /\ Readable(localFile) /\ LocalField("app") = Undefined
AppRequests ==
  SelectSeq(http, LAMBDA e : e.api = "mgmt" /\ Len(e.path) = 3)

\* C14: resolveApp takes the app id of the flag, else the `app` key of the
\* local config, else the first app of the project's live list, Android apps
\* before iOS apps in the order of the answers; with no flag and no config
\* app it fails with Unresolvable, naming the step, when no project number
\* is there to list with or when the list is empty.
C14_AppPrecedence ==
  (AppCommand /\ ProjectResolved) =>
    /\ run.appId # Undefined =>
         /\ run.pc \in {"client", "data", "done", "failed"}
         /\ run.appId =
              IF run.flagApp # Undefined THEN run.flagApp
              ELSE IF LocalField("app") # Undefined THEN LocalField("app")
              ELSE Head(AppIdsListed)
    /\ (run.flagApp # Undefined \/ LocalField("app") # Undefined) =>
         /\ run.pc = "resolveApp" \/ run.appId # Undefined
         /\ AppRequests = <<>>
    /\ run.listed # Undefined =>
         /\ Len(run.apps) = Len(AppIdsListed)
         /\ \A i \in 1..Len(run.apps) : run.apps[i].appId = AppIdsListed[i]
         /\ \A i \in 1..Len(run.apps) :
              run.apps[i].platform =
                IF i <= Len(Listed(run.listed.android)) THEN "ANDROID" ELSE "IOS"
    /\ (NoAppGiven /\ run.project.projectNumber = Undefined) =>
         /\ run.pc \in {"resolveApp", "failed"}
         /\ AppRequests = <<>>
         /\ run.pc = "failed" =>
              run.error = RErr("Unresolvable", {"app", "projectNumber"})
    /\ (NoAppGiven /\ run.listed # Undefined /\ AppIdsListed = <<>>) =>
         /\ run.pc = "failed"
         /\ run.error = RErr("Unresolvable", {"app", "apps"})
         /\ run.appId = Undefined

\* With no flag and no config app, the first Android app of a list that has
\* iOS apps too was taken, and the command ran to its end.
C14_Witness ==
  /\ run.cmd = "notes delete"
  /\ run.pc = "done"
  /\ NoAppGiven
  /\ run.listed # Undefined
  /\ Len(Listed(run.listed.ios)) > 0
  /\ run.appId = Str(<<"and-1">>)

\* An invocation whose getAccessToken call has thrown.
TokenFailed(i) == i.tok.kind \notin {"ok", "pending"}
ApiRequests == SelectSeq(http, LAMBDA e : e.api # "token")

\* C15: every request sent to the management API or the crash-data API has
\* the header Authorization: Bearer <token> with the token that the
\* getAccessToken call of its invocation returned; an invocation whose
\* getAccessToken call failed has sent no request.
C15_BearerOfOwnToken ==
  /\ \A k \in 1..Len(ApiRequests) :
       /\ ApiRequests[k].by.kind = "ok"
       /\ ApiRequests[k].by.token \in Tokens
       /\ ApiRequests[k].auth = [scheme |-> "Bearer", token |-> ApiRequests[k].by.token]
  /\ \A p \in Procs :
       /\ inv[p].sent >= 1 =>
            /\ inv[p].tok.kind = "ok"
            /\ \E k \in 1..Len(ApiRequests) :
                 /\ ApiRequests[k].path = inv[p].path
                 /\ ApiRequests[k].method = inv[p].method
                 /\ ApiRequests[k].auth = [scheme |-> "Bearer", token |-> inv[p].tok.token]
       /\ TokenFailed(inv[p]) =>
            /\ inv[p].sent = 0
            /\ inv[p].st = "failed"
            /\ \A k \in 1..Len(ApiRequests) : ApiRequests[k].path # inv[p].path

\* A crash-data request went out with a token that was refreshed for it.
C15_Witness ==
  \E p \in Procs :
    /\ inv[p].api = "crash"
    /\ inv[p].sent = 1
    /\ inv[p].tokenPosts = 1
    /\ Len(SentTo("token")) >= 2

\* C16: for the requests of both APIs, 401 maps to NotAuthenticated, 403 to
\* PermissionDenied, 404 to NotFound, 429 to RateLimited, any other non-2xx
\* status to UpstreamError with the status and the body, 204 to success
\* with an empty result, a 2xx body that is not JSON to ProtocolError.
C16_StatusMapping ==
  \A p \in Procs :
    (inv[p].st \in {"ok", "failed"} /\ inv[p].resp.net) =>
      LET r == inv[p].resp
          res == inv[p].result
      IN /\ r.status = 401 => res.kind = "NotAuthenticated"
         /\ r.status = 403 => res.kind = "PermissionDenied"
         /\ r.status = 404 => res.kind = "NotFound"
         /\ r.status = 429 => res.kind = "RateLimited"
         /\ (~ResponseOk(r) /\ r.status \notin {401, 403, 404, 429}) =>
              /\ res.kind = "UpstreamError"
              /\ res.status = {r.status}
              /\ res.body = {r.text}
         /\ r.status = NoContent => res = ApiOk(Undefined)
         /\ (ResponseOk(r) /\ r.status # NoContent /\ r.body.t = "unparsable") =>
              res.kind = "ProtocolError"

\* C17: a 404 answer to getIssue gives a NotFound error whose message has
\* the resource path of the request, with the issue id, and the project and
\* app identifiers of the request.
C17_NotFoundNamesPath ==
  \A p \in Procs :
    (inv[p].what = "getIssue" /\ inv[p].st = "failed" /\ inv[p].resp.net
       /\ inv[p].resp.status = 404) =>
      /\ inv[p].result.kind = "NotFound"
      /\ StringOf(run.project.projectNumber) \in inv[p].result.mentions
      /\ StringOf(run.appId) \in inv[p].result.mentions
      /\ \/ inv[p].path \in inv[p].result.mentions
         \/ IssueId \in inv[p].result.mentions

\* C18: an invocation of the request layer sends at most one request to its
\* endpoint and its getAccessToken call at most one token POST; an answer
\* that is an error, a 401 too, ends the invocation as failed with no
\* further request and no token refresh.
C18_NoRetries ==
  /\ \A p \in Procs :
       /\ inv[p].sent <= 1
       /\ inv[p].tokenPosts <= 1
       /\ (inv[p].resp.net /\ ~ResponseOk(inv[p].resp)) =>
            /\ inv[p].st = "failed"
            /\ inv[p].result.kind # "ok"
  /\ Len(ApiRequests) <= run.invoked
  /\ Len(SentTo("token")) <= run.invoked
  /\ run.pc = "failed" => Len(run.stderr) = 1

\* A 401 from the crash-data API, after a token was refreshed, ended the
\* invocation.
C18_Witness ==
  \E p \in Procs :
    /\ inv[p].api = "crash"
    /\ inv[p].resp.net
    /\ inv[p].resp.status = 401
    /\ inv[p].st = "failed"
    /\ inv[p].sent = 1

\* `fcc set project` and `fcc set app` have both succeeded, and the command
\* was given neither flag.
SavedBoth == saved.project # Undefined /\ saved.app # Undefined
NoFlags == run.flagProject = Undefined /\ run.flagApp = Undefined

C23_TokenInMemoryOnly ==
  [][ /\ credFile' = credFile
      /\ rcFile' = rcFile
      /\ localFile' = localFile
      /\ globalFile' = globalFile
      /\ (<<cachedAccessToken, tokenExpiresAt>>' # <<cachedAccessToken, tokenExpiresAt>>) =>
           \E p \in Procs :
             /\ pc[p] = "json"
             /\ refreshResult(call[p].resp).kind = "ok"
             /\ cachedAccessToken' = call[p].resp.body.access_token
             /\ tokenExpiresAt' = ExpiresAt(now, call[p].resp.body.expires_in) ]_vars

\* A cached token and its expiry were both replaced by a later refresh.
C23_Witness ==
  \E p \in Procs :
    /\ call[p].wrote
    /\ call[p].startTok # null
    /\ cachedAccessToken # call[p].startTok
    /\ tokenExpiresAt # call[p].startExp
    /\ cachedAccessToken = lastRefresh.token
    /\ tokenExpiresAt = ExpiresAt(lastRefresh.at, lastRefresh.expires_in)

\* C25: a getAccessToken call that has failed, at whichever step, has not
\* written the cache, and the token and expiry are those the call began
\* with (no other call of its Promise.all having written them); a call that
\* returns the cached token began before that token's expiry.
C25_FailureKeepsCache ==
  \A p \in Procs :
    /\ pc[p] = "thrown" =>
         /\ ~call[p].wrote
         /\ call[p].result.kind \notin {"ok", "pending"}
         /\ (\A q \in Procs \ {p} : ~call[q].wrote) =>
              /\ cachedAccessToken = call[p].startTok
              /\ tokenExpiresAt = call[p].startExp
    /\ (pc[p] = "returned" /\ ~call[p].wrote) =>
         /\ call[p].startTok # null
         /\ call[p].startNow < call[p].startExp
         /\ call[p].result = Ok(call[p].startTok)

\* A refresh of an expired token failed on a 2xx answer without a token,
\* and the expired token is still the cached one.
C25_Witness ==
  \E p \in Procs :
    /\ pc[p] = "thrown"
    /\ call[p].result.kind = "NoAccessToken"
    /\ call[p].startTok # null
    /\ call[p].startNow >= call[p].startExp
    /\ cachedAccessToken = call[p].startTok

(***************************************************************************)
(* Further properties of the config commands.                              *)
(***************************************************************************)
\* C29: `config get <key>` prints the value the merged config has for the
\* key (the local value when the local file has the key, else the global
\* one) with the matching source, and reports "not set" with a non-zero
\* exit exactly when the merged record has no such key.
C29_GetAgreesWithMerged ==
  (last.cmd = "get" /\ last.res.kind = "ok") =>
    LET m == getMergedConfig
        lr == FileRec(localFile)
    IN /\ m.kind = "ok"
       /\ last.key \in DOMAIN m.val.rec =>
            /\ last.exit = 0
            /\ last.stdout =
                 << [tag |-> "value", text |-> StringOf(m.val.rec[last.key])],
                    IF last.key \in DOMAIN lr
                      THEN [tag |-> "source", scope |-> "local",
                            path |-> getLocalConfigPath]
                      ELSE [tag |-> "source", scope |-> "global",
                            path |-> getGlobalConfigPath] >>
       /\ last.key \notin DOMAIN m.val.rec =>
            /\ last.exit # 0
            /\ last.stdout = << [tag |-> "not set", key |-> last.key] >>

(***************************************************************************)
(* Further properties of the resolver.                                     *)
(***************************************************************************)
GlobalField(key) ==
  IF key \in DOMAIN FileRec(globalFile) THEN FileRec(globalFile)[key] ELSE Undefined

\* C22: the global config file is the last source of the chains: when the
\* flag, .firebaserc and the local config give no project id, the `project`
\* of the global config is resolved; when the flag and the local config
\* give no app id, the `app` of the global config is.
C22_GlobalIsLastSource ==
  /\ (Resolving /\ run.flagProject = Undefined /\ RcReadable
        /\ RcDefault = Undefined /\ Readable(localFile)
        /\ LocalField("project") = Undefined /\ GlobalField("project") # Undefined) =>
       run.projectId = GlobalField("project")
  /\ (AppCommand /\ ProjectResolved /\ run.pc \in {"client", "data", "done"}
        /\ NoAppGiven /\ GlobalField("app") # Undefined) =>
       run.appId = GlobalField("app")

ProjectFiles == {<<"resolveProject", ".firebaserc">>, <<"resolveProject", ".fcc.json">>}

\* C24: the chains stop at the first source that gives a value.  With a
\* project flag resolveProject reads neither .firebaserc nor .fcc.json and
\* does not fail on them; without it, it reads .fcc.json only when
\* .firebaserc gave no id; with an app flag resolveApp reads no file and
\* lists no apps; an error reading .firebaserc ends the resolution with that
\* error, and .fcc.json is not read.
C24_ShortCircuit ==
  Resolving =>
    /\ run.flagProject # Undefined =>
         /\ run.reads \cap ProjectFiles = {}
         /\ run.projectId = run.flagProject
         /\ run.pc = "failed" => run.error.kind \notin {"ConfigCorrupt", "ReadFailed"}
                                   \/ run.reads # {}
    /\ (run.flagProject = Undefined /\ RcDefault # Undefined) =>
         run.reads \cap ProjectFiles = {<<"resolveProject", ".firebaserc">>}
    /\ (run.flagProject = Undefined /\ RcReadable /\ RcDefault = Undefined) =>
         run.reads \cap ProjectFiles = ProjectFiles
    /\ (run.flagProject = Undefined /\ ~RcReadable) =>
         /\ run.pc = "failed"
         /\ run.error = RErr("ConfigCorrupt", {FirebaseRcPath})
         /\ run.reads = {<<"resolveProject", ".firebaserc">>}
         /\ run.projectId = Undefined
         /\ http = <<>>
    /\ (run.flagApp # Undefined /\ run.pc \in {"client", "data", "done"}) =>
         /\ run.appId = run.flagApp
         /\ <<"resolveApp", ".fcc.json">> \notin run.reads
         /\ AppRequests = <<>>

\* With both flags a command ran to its end beside a corrupt .firebaserc and
\* a corrupt .fcc.json, and read neither.
C24_Witness ==
  /\ run.cmd = "issues get"
  /\ run.pc = "done"
  /\ run.flagProject # Undefined
  /\ run.flagApp # Undefined
  /\ rcFile.st = "unparsable"
  /\ localFile.st = "unparsable"
  /\ run.reads = {}

(***************************************************************************)
(* Properties of `notes delete`.                                           *)
(***************************************************************************)
\* The answers that are "y" or "yes" once trimmed and put in lower case.
Yes == { <<"y", "\n">>, <<" ", "Y", "E", "S", " ", "\n">> }
NothingDone ==
  /\ http = <<>>
  /\ ~run.looked
  /\ run.reads = {}
  /\ run.invoked = 0
  /\ cachedAccessToken = null
DeleteRequests == SelectSeq(http, LAMBDA e : e.method = "DELETE")

\* C26: `notes delete` without --force does nothing (no resolution, no
\* credential read or token refresh, no request) until the prompt is
\* answered; an answer that is "y" or "yes" (trimmed, in any case) lets it go
\* on to resolve and to send the DELETE request; after any other answer it
\* has done nothing and ends with "Deletion cancelled" and exit code 0;
\* with --force there is no prompt.
C26_DeleteOnlyAfterYes ==
  run.cmd = "notes delete" =>
    /\ run.pc = "confirm" => NothingDone /\ ~run.force /\ run.answer = Undefined
    /\ (~run.force /\ run.pc # "confirm") =>
         /\ run.answer # Undefined
         /\ run.answer.s \in Yes => run.pc = "resolveProject" \/ run.looked
         /\ run.answer.s \notin Yes =>
              /\ NothingDone
              /\ run.pc = "done"
              /\ run.exit = 0
              /\ run.stdout[Len(run.stdout)] = [tag |-> "Deletion cancelled."]
              /\ run.stderr = <<>>
    /\ run.force =>
         /\ run.answer = Undefined
         /\ run.pc = "resolveProject" \/ run.looked
         /\ \A i \in 1..Len(run.stdout) : run.stdout[i].tag # "Are you sure"
    /\ Len(DeleteRequests) <= 1
    /\ DeleteRequests # <<>> => run.force \/ run.answer.s \in Yes

\* After " YES ", typed at the prompt, the DELETE request was sent and the
\* note deleted.
C26_Witness ==
  /\ run.cmd = "notes delete"
  /\ ~run.force
  /\ run.answer = Str(<<" ", "Y", "E", "S", " ", "\n">>)
  /\ Len(DeleteRequests) = 1
  /\ run.pc = "done"

(***************************************************************************)
(* Properties of the --json toggle.                                        *)
(***************************************************************************)
\* C21: a command accepts --json, and when it is given and the command
\* succeeds, standard output holds one JSON document and nothing else.
C21_JsonToggle ==
  (last.cmd # "none" /\ last.json) =>
    /\ last.res.kind # "UnknownOption"
    /\ last.exit = 0 =>
         /\ Len(last.stdout) = 1
         /\ last.stdout[1].tag = "json"

(***************************************************************************)
(* Properties of timeAgo, listProjects and `reports top-devices`.          *)
(***************************************************************************)
TimeAgoUnits ==
  {"m", "h", "day", "days", "week", "weeks", "month", "months", "year", "years"}

\* C30: timeAgo gives "just now" for a future date and for less than 60
\* seconds elapsed, and otherwise a count of at least 1 with one unit.
C30_TimeAgoCountAtLeastOne ==
  tool.op = "timeAgo" =>
    /\ tool.diffMs[1] < 60 => tool.out = [text |-> "just now"]
    /\ tool.diffMs[1] >= 60 =>
         /\ DOMAIN tool.out = {"n", "unit"}
         /\ tool.out.unit \in TimeAgoUnits
         /\ tool.out.n >= 1

\* The results of the pages, one after the other.
RECURSIVE PageResults(_)
PageResults(pages) ==
  IF pages = <<>> THEN <<>>
  ELSE PageResults(SubSeq(pages, 1, Len(pages) - 1))
         \o (IF pages[Len(pages)].body.results.t = "undefined" THEN <<>>
             ELSE pages[Len(pages)].body.results.list)

PageHasToken(r) ==
  firebaseApiGet(r).kind = "ok" /\ TruthyValue(r.body.nextPageToken)

ListProjectsPaging ==
  tool.op = "listProjects" =>
    /\ Len(tool.requests) = Len(tool.pages) + (IF tool.st = "await" THEN 1 ELSE 0)
    /\ tool.requests[1].pageToken = Undefined
    /\ \A i \in 1..Len(tool.requests) : tool.requests[i].pageSize = "100"
    /\ \A i \in 2..Len(tool.requests) :
         tool.requests[i].pageToken = tool.pages[i - 1].body.nextPageToken
    /\ \A i \in 1..Len(tool.pages) :
         PageHasToken(tool.pages[i]) <=> (i < Len(tool.pages) \/ tool.st = "await")
    /\ tool.st = "done" =>
         /\ firebaseApiGet(tool.pages[Len(tool.pages)]).kind = "ok"
         /\ tool.result = ApiOk(PageResults(tool.pages))
    /\ tool.st = "failed" =>
         /\ firebaseApiGet(tool.pages[Len(tool.pages)]).kind # "ok"
         /\ tool.result = firebaseApiGet(tool.pages[Len(tool.pages)])
         /\ tool.result.kind # "ok"

\* C27: listProjects requests the pages one at a time, each request after
\* the first carrying the token of the page before it; the first page
\* without a token ends it with the results of all pages in page order; a
\* failed request ends it with that error and no list; and, the upstream
\* answering a page without a token after MaxPages requests at the latest,
\* every call ends.
C27_ListProjectsPagination ==
  /\ []ListProjectsPaging
  /\ (tool.op = "listProjects" /\ tool.st = "await")
       ~> (tool.op = "listProjects" /\ tool.st \in {"done", "failed"})

\* Three pages, the last one without a token, and their results returned.
C27_Witness ==
  /\ tool.op = "listProjects"
  /\ tool.st = "done"
  /\ Len(tool.pages) = 3
  /\ Len(tool.result.val) >= 3
  /\ tool.requests[2].pageToken # tool.requests[3].pageToken

\* C28: in `reports top-devices` without --platform, the app whose platform
\* selects the report is the app the client queries.
C28_PlatformOfClientApp ==
  (tool.op = "top-devices" /\ tool.st = "done") =>
    /\ tool.appId = tool.clientApp
    /\ tool.reportName =
         IF detectAppPlatform(tool.clientApp, tool.listed[3]) = "IOS"
           THEN "TOP_APPLE_DEVICES" ELSE "TOP_ANDROID_DEVICES"

====
